---- MODULE Spec2Model ----
(***************************************************************************)
(* Model of the message delivery pipeline of whatsapp-messaging-api:       *)
(* the job queue (message_logs rows, the queue_jobs rows of SqliteStore,   *)
(* the workers that run processMessage, cancelPendingMessage) and the      *)
(* account router (getOrCreateAccountForRecipient).                        *)
(***************************************************************************)
EXTENDS Integers, Sequences, FiniteSets, TLC

\* ---------------------------------------------------------------- bounds
MaxJobs == 1
NumWorkers == 2
NumAccounts == 2
MaxHandles == 2
MaxLen == 3
MaxCalls == 3
NumPhones == 2
NumRegistrations == 2

\* ----------------------------------------------------- program constants
\* config.maxRetryCount: parseInt(process.env.MAX_RETRY_COUNT || "3", 10)
maxRetryCount == 3

JobIds == 1..MaxJobs
Workers == 1..NumWorkers
Accounts == 1..NumAccounts
Handles == 1..MaxHandles

\* A table cell that holds no row (findUnique returns null, SELECT returns []).
NoRow == [absent |-> TRUE]

VARIABLES
  messageLog,       \* table message_logs: job id -> row or NoRow
  queue_jobs,       \* table queue_jobs of SqliteStore: job id -> row or NoRow
  nextJob,          \* next fresh job id (uuid in the source)
  pushing,          \* ids whose message_logs row exists, queue.push not done yet
  wpc,              \* worker -> "idle" | "claimed" | "active" | "retryWait"
  witem,            \* worker -> id of the item it got from getNext (0: none)
  cancelPc,         \* job id -> "idle" | "update": position of a cancel request
  cancelAt,         \* job id -> status of the job when the cancel in progress was called
  cancelled,        \* ids for which a cancel has answered success
  attempts,         \* job id -> number of processMessage runs for the job
  delivered,        \* ids for which a transport send has succeeded
  accounts,         \* table whatsapp_accounts: id -> "NONE" (no row) | status
  whatsappSockets,  \* whatsappSockets: account id -> handle (0: no entry)
  socketStatus,     \* socketStatus: account id -> last connection value
  hstate,           \* handle -> "unused" | "connecting" | "open" | "closed"
                    \*   | "loggedOut" (closed with DisconnectReason.loggedOut)
  hacct,            \* handle -> accountId its listeners were created with
  reconnectTimers,  \* account id -> pending setTimeout(initWhatsAppConnection)
  restartPc,        \* account id -> position of restartWhatsAppConnection:
                    \*   "idle" | "deleted" | "inactive" | "init" (awaiting
                    \*   initWhatsAppConnection) | "opened" | "openFailed"
  initAccount,      \* accountId of the initWhatsAppConnection call that has
                    \*   found its row and not made its socket yet (0: none)
  loggedOutAccounts, \* accounts logged out by the transport and not opened
                    \*   or restarted by a request since
  recipientAccountMap, \* table recipient_account_map: a set of rows
  sm,               \* the sendMessage request in progress: pc, to, acc
  fmtIn,            \* formatPhoneNumber: its argument phoneNumber
  fmtOut,           \* formatPhoneNumber: the string it returns
  fmtPc,            \* formatPhoneNumber: "idle" | "call" | "return"
  qrCodeMap,        \* qrCodeMap of sessionController: account id -> TRUE when
                    \*   a QR string is cached for it
  answer,           \* the last answer of a session request: op, id, code
  deletedAt,        \* accounts whose row has deleted_at set
  bootPc,           \* autoConnectWhatsAppAccounts: "findMany" | "loop"
                    \*   | "await" | "done" ("idle": not followed)
  bootList,         \* autoConnectWhatsAppAccounts: the accounts still to loop
                    \*   over, the one being opened first
  bootOpened,       \* accounts autoConnectWhatsAppAccounts has called
                    \*   initWhatsAppConnection for
  session,          \* table session: rows whatsappAccountId, identifier, data
  lastRead,         \* the last call of read that returned: key and result
  written,          \* per key, the value of the last write call that returned
                    \*   with no del call after it (history)
  authCreds,        \* per account, state.creds of usePostgresAuthState
  credsRead,        \* per account, how read("creds") of usePostgresAuthState
                    \*   ended: "none" | "found" | "absent" | "fault" (history)
  callLog,          \* the calls of write and del one caller has made (history)
  batchPc,          \* keys.set: "idle" | "running" | "returned" | "raised"
  batchTasks,       \* keys.set: the tasks of the call: id, value, and
                    \*   "pending" | "applied" | "failed"
  batchBefore,      \* keys.set: table session when the call began (history)
  upc,              \* per concurrent writer, its position in model.upsert
  uarg,             \* per concurrent writer, the arguments of its write
  ubefore,          \* pairs <<w1, w2>>: write w1 returned before w2 began
  reqPc,            \* a send request: "idle" | "received" | "answered"
  reqBody,          \* a send request: req.body
  reqStatus,        \* a send request: the status of the answer
  reqQueued,        \* a send request: whether a job was queued for it
  phone_number,     \* per account, column phone_number of its row (0: no row)
  regPc,            \* per registration, its position in addWhatsAppAccount
  regPhone,         \* per registration, req.body.phone_number
  regAccount,       \* per registration, newAccount.id (0: none)
  regStatus,        \* per registration, the status of the answer (0: none)
  uniqueIndex,      \* whether the table has whatsapp_accounts_phone_number_key
  deletedAtFilter   \* whether findFirst of addWhatsAppAccount has deletedAt: null

\* Variables of the job queue.
qvars == <<queue_jobs, wpc, witem, cancelPc, cancelAt, cancelled,
           attempts, delivered>>

\* Variables written by an accepted request.
jvars == <<messageLog, nextJob, pushing>>

\* Variables of the connection manager.
cvars == <<accounts, whatsappSockets, socketStatus, hstate, hacct,
           reconnectTimers, restartPc, initAccount, loggedOutAccounts>>

\* Variables of the account router.
rvars == <<recipientAccountMap, sm>>

\* Variables of a call of formatPhoneNumber.
fvars == <<fmtIn, fmtOut, fmtPc>>

\* Variables of the session controller.
svars == <<qrCodeMap, answer>>

\* Variables of autoConnectWhatsAppAccounts.
bvars == <<deletedAt, bootPc, bootList, bootOpened>>

\* Variables of the session store other than the table itself.
avars == <<lastRead, written, authCreds, credsRead, callLog>>
kvars == <<batchPc, batchTasks, batchBefore>>
uvars == <<upc, uarg, ubefore>>
stvars == <<session, avars, kvars, uvars>>

\* Variables of the validation of a send request.
pvars == <<reqPc, reqBody, reqStatus, reqQueued>>

\* Variables of the registration of accounts.
gvars == <<phone_number, regPc, regPhone, regAccount, regStatus, uniqueIndex,
           deletedAtFilter>>

vars == <<qvars, jvars, cvars, rvars, fvars, svars, bvars, stvars, pvars,
          gvars>>

\* ------------------------------------------------------- phone numbers
\* Recipient addresses as a request writes them: sequences of characters.
RawRecipients == {<<"0", "8">>, <<"+", "6", "2", "8">>}

Digits == {"0", "1", "2", "3", "4", "5", "6", "7", "8", "9"}

IsDigit(c) == c \in Digits

\* formatPhoneNumber without its replace(/\D/g, "").
formatPhoneNumberNoStrip(phoneNumber) ==
  LET cleaned == phoneNumber IN
  IF Len(cleaned) >= 1 /\ cleaned[1] = "0"
  THEN <<"6", "2">> \o Tail(cleaned)
  ELSE IF ~(Len(cleaned) >= 2 /\ cleaned[1] = "6" /\ cleaned[2] = "2")
  THEN <<"6", "2">> \o cleaned
  ELSE cleaned

\* formatPhoneNumber: strip non-digits; a leading "0" becomes "62"; a number
\* that does not start with "62" gets "62" in front.
formatPhoneNumber(phoneNumber) ==
  LET cleaned == SelectSeq(phoneNumber, IsDigit) IN
  IF Len(cleaned) >= 1 /\ cleaned[1] = "0"
  THEN <<"6", "2">> \o Tail(cleaned)
  ELSE IF ~(Len(cleaned) >= 2 /\ cleaned[1] = "6" /\ cleaned[2] = "2")
  THEN <<"6", "2">> \o cleaned
  ELSE cleaned

\* Keys of table recipient_account_map.
RecipientNumbers == {formatPhoneNumber(r) : r \in RawRecipients}

\* A row of table recipient_account_map.
MappingRow(recipientNumber, accountId) ==
  [recipientNumber |-> recipientNumber, whatsappAccountId |-> accountId]

\* prisma.recipientAccountMap.findUnique({ where: { recipientNumber } }):
\* the account of the row found, 0 when there is none.
findMapping(map, recipientNumber) ==
  IF \E r \in map : r.recipientNumber = recipientNumber
  THEN (CHOOSE r \in map : r.recipientNumber = recipientNumber).whatsappAccountId
  ELSE 0

\* An upsert that always takes its create branch.
upsertMappingCreate(map, recipientNumber, accountId) ==
  map \cup {MappingRow(recipientNumber, accountId)}

\* prisma.recipientAccountMap.upsert({ where: { recipientNumber }, update,
\* create }): the row with that recipient_number is updated, or one is created.
upsertMapping(map, recipientNumber, accountId) ==
  {r \in map : r.recipientNumber # recipientNumber}
    \cup {MappingRow(recipientNumber, accountId)}

\* ------------------------------------------------------------ SqliteStore
\* SqliteStore.put: INSERT OR REPLACE, whatever row (if any) is stored.
put(table, taskId, item) == [table EXCEPT ![taskId] = item]

\* SqliteStore.del: DELETE FROM queue_jobs WHERE id = ?
del(table, taskId) == [table EXCEPT ![taskId] = NoRow]

\* Rows with status 'pending'.
PendingRows(table) ==
  {j \in JobIds : table[j] # NoRow /\ table[j].status = "pending"}

\* SqliteStore.getNext: SELECT ... WHERE status = 'pending'
\* ORDER BY priority DESC, created ASC LIMIT 1; a read, no row is changed.
\* priority is 0 for every row; 0 stands for null.
getNext(table) ==
  IF PendingRows(table) = {} THEN 0
  ELSE CHOOSE j \in PendingRows(table) :
         \A k \in PendingRows(table) : table[j].created <= table[k].created

\* Ids that queueTextMessage has returned to its caller: created and pushed.
returned == {j \in JobIds : j < nextJob /\ j \notin pushing}

\* getMessageStatus: prisma.messageLog.findUnique, 404 when there is no row.
getMessageStatus(id) ==
  IF messageLog[id] = NoRow THEN "404" ELSE messageLog[id].status

\* The status of a job in the terms of the job state machine: SENT and FAILED
\* are stored in message_logs (MessageStatus has no ACTIVE); a claimed job is
\* the one whose queue_jobs row is 'active'.
JobStatus(j) ==
  IF messageLog[j] = NoRow THEN "NONE"
  ELSE IF messageLog[j].status \in {"SENT", "FAILED"} THEN messageLog[j].status
  ELSE IF queue_jobs[j] # NoRow /\ queue_jobs[j].status = "active" THEN "ACTIVE"
  ELSE "PENDING"

\* ------------------------------------------------- job store bookkeeping
\* enqueue as it would be if it returned the id without persisting the row.
createMessageLogNotPersisted(log, id, a, to) == log

\* enqueue persists a new row with status PENDING and retryCount 0
\* (the defaults of model MessageLog; sentTime defaults to now()).
createMessageLog(log, id, a, to) ==
  [log EXCEPT ![id] = [status |-> "PENDING", retryCount |-> 0,
                       sentTime |-> "created", accountId |-> a, to |-> to]]

\* On success: set status SENT, stamp sentTime.
markSent(log, id) == [log EXCEPT ![id].status = "SENT", ![id].sentTime = "sent"]

\* On failure: increment retryCount.
markRetry(log, id) == [log EXCEPT ![id].retryCount = @ + 1]

\* On failure with retryCount at the maximum: set status FAILED terminally.
markFailed(log, id) == [log EXCEPT ![id].status = "FAILED"]

\* ---------------------------------------------------------------- enqueue
\* queueTextMessage, first half: the message_logs row is created.
QueueTextMessageCreate(a, to) ==
  /\ nextJob <= MaxJobs
  /\ messageLog' = createMessageLog(messageLog, nextJob, a, to)
  /\ pushing' = pushing \cup {nextJob}
  /\ nextJob' = nextJob + 1
  /\ UNCHANGED <<fvars, gvars, pvars, stvars, bvars, svars, queue_jobs, wpc, witem, cancelPc, cancelAt,
                 cancelled, attempts, delivered, cvars, rvars>>

\* queueTextMessage, second half: queue.push(job); return jobId.
QueueTextMessagePush(j) ==
  /\ j \in pushing
  /\ queue_jobs' = put(queue_jobs, j, [status |-> "pending", created |-> j])
  /\ pushing' = pushing \ {j}
  /\ UNCHANGED <<fvars, gvars, pvars, stvars, bvars, svars, messageLog, nextJob, wpc, witem, cancelPc, cancelAt,
                 cancelled, attempts, delivered, cvars, rvars>>

\* ---------------------------------------------------------------- workers
\* A worker reads the next pending row with getNext.
WorkerGetNext(w) ==
  /\ wpc[w] = "idle"
  /\ getNext(queue_jobs) # 0
  /\ witem' = [witem EXCEPT ![w] = getNext(queue_jobs)]
  /\ wpc' = [wpc EXCEPT ![w] = "claimed"]
  /\ UNCHANGED <<fvars, gvars, pvars, stvars, bvars, svars, messageLog, queue_jobs, nextJob, pushing, cancelPc,
                 cancelAt, cancelled, attempts, delivered, cvars, rvars>>

\* The worker marks the row it read as active with put, and holds the job.
WorkerPutActive(w) ==
  /\ wpc[w] = "claimed"
  /\ queue_jobs' = put(queue_jobs, witem[w],
                       [status |-> "active", created |-> witem[w]])
  /\ wpc' = [wpc EXCEPT ![w] = "active"]
  /\ UNCHANGED <<fvars, gvars, pvars, stvars, bvars, svars, messageLog, nextJob, pushing, witem, cancelPc,
                 cancelAt, cancelled, attempts, delivered, cvars, rvars>>

\* Retry policy of the queue (maxRetries: config.maxRetryCount): the failure
\* is counted first; the job is retried while the count is below
\* maxRetryCount and fails for good when the count has reached it.
ShouldRetry(retryCount) == retryCount < maxRetryCount

\* processMessage: sendTextMessage throws when the account has no socket,
\* otherwise the transport send succeeds or fails (ok); then the outcome is
\* recorded: SENT with sentTime, or retryCount + 1 and then a retry or FAILED.
\* A successful sendTextMessage upserts the recipient's mapping.
processMessage(w, ok) ==
  LET j == witem[w] IN
  /\ wpc[w] = "active"
  /\ ok => whatsappSockets[messageLog[j].accountId] # 0
  /\ attempts' = [attempts EXCEPT ![j] = @ + 1]
  /\ IF ok
     THEN /\ messageLog' = markSent(messageLog, j)
          /\ queue_jobs' = put(queue_jobs, j,
                               [status |-> "complete", created |-> j])
          /\ delivered' = delivered \cup {j}
          /\ wpc' = [wpc EXCEPT ![w] = "idle"]
          /\ recipientAccountMap' =
               upsertMapping(recipientAccountMap,
                             formatPhoneNumber(messageLog[j].to),
                             messageLog[j].accountId)
     ELSE IF ShouldRetry(messageLog[j].retryCount + 1)
     THEN /\ messageLog' = markRetry(messageLog, j)
          /\ wpc' = [wpc EXCEPT ![w] = "retryWait"]
          /\ UNCHANGED <<queue_jobs, delivered, recipientAccountMap>>
     ELSE /\ messageLog' = markFailed(markRetry(messageLog, j), j)
          /\ queue_jobs' = put(queue_jobs, j,
                               [status |-> "failed", created |-> j])
          /\ wpc' = [wpc EXCEPT ![w] = "idle"]
          /\ UNCHANGED <<delivered, recipientAccountMap>>
  /\ witem' = [witem EXCEPT ![w] = IF wpc'[w] = "idle" THEN 0 ELSE @]
  /\ UNCHANGED <<fvars, gvars, pvars, stvars, bvars, svars, nextJob, pushing, cancelPc, cancelAt,
                 cancelled, cvars, sm>>

\* A retry that is lost: the delay passes and the job is not put back.
RetryFireDropped(w) ==
  /\ wpc[w] = "retryWait"
  /\ wpc' = [wpc EXCEPT ![w] = "idle"]
  /\ witem' = [witem EXCEPT ![w] = 0]
  /\ UNCHANGED <<fvars, gvars, pvars, stvars, bvars, svars, messageLog, queue_jobs, nextJob, pushing, cancelPc,
                 cancelAt, cancelled, attempts, delivered, cvars, rvars>>

\* retryDelay: config.retryDelay has passed, the job is pending again.
RetryFire(w) ==
  /\ wpc[w] = "retryWait"
  /\ queue_jobs' = put(queue_jobs, witem[w],
                       [status |-> "pending", created |-> witem[w]])
  /\ wpc' = [wpc EXCEPT ![w] = "idle"]
  /\ witem' = [witem EXCEPT ![w] = 0]
  /\ UNCHANGED <<fvars, gvars, pvars, stvars, bvars, svars, messageLog, nextJob, pushing, cancelPc,
                 cancelAt, cancelled, attempts, delivered, cvars, rvars>>

\* ----------------------------------------------------------------- cancel
\* cancelPendingMessage up to its first write: findUnique; the request goes
\* on only when the row exists and its status is PENDING (otherwise it
\* answers 404 or 400 and nothing is written). The caller names an id that
\* queueTextMessage has returned.
cancelCheck(id) ==
  IF messageLog[id] = NoRow THEN "404"
  ELSE IF messageLog[id].status # "PENDING" THEN "400"
  ELSE "ok"

CancelFind(j) ==
  /\ cancelPc[j] = "idle"
  /\ j \in returned
  /\ cancelCheck(j) = "ok"
  /\ cancelAt' = [cancelAt EXCEPT ![j] = JobStatus(j)]
  /\ cancelPc' = [cancelPc EXCEPT ![j] = "update"]
  /\ UNCHANGED <<fvars, gvars, pvars, stvars, bvars, svars, messageLog, queue_jobs, nextJob, pushing, wpc, witem,
                 cancelled, attempts, delivered, cvars, rvars>>

\* prisma.messageLog.update({ where: { id }, data: { status: FAILED } }).
cancelUpdate(log, id) == [log EXCEPT ![id].status = "FAILED"]

\* messageQueue.cancelJob: the job is removed from the scheduler.
cancelJob(table, id) == del(table, id)

\* cancelPendingMessage, the rest: update status FAILED (where id, whatever
\* the status is by now), cancelJob, answer "Message canceled successfully".
CancelUpdate(j) ==
  /\ cancelPc[j] = "update"
  /\ messageLog' = cancelUpdate(messageLog, j)
  /\ queue_jobs' = cancelJob(queue_jobs, j)
  /\ cancelled' = cancelled \cup {j}
  /\ cancelAt' = [cancelAt EXCEPT ![j] = "NONE"]
  /\ cancelPc' = [cancelPc EXCEPT ![j] = "idle"]
  /\ UNCHANGED <<fvars, gvars, pvars, stvars, bvars, svars, nextJob, pushing, wpc, witem, attempts,
                 delivered, cvars, rvars>>

\* ----------------------------------------------------- connection manager
\* The handle makeWASocket returns next: the first one not made yet.
UnusedHandles == {h \in Handles : hstate[h] = "unused"}

NewHandle == CHOOSE h \in UnusedHandles : \A k \in UnusedHandles : h <= k

\* delete whatsappSockets[accountId]
deleteSocket(sockets, a) == [sockets EXCEPT ![a] = 0]

\* delete socketStatus[accountId]
deleteStatus(st, a) == [st EXCEPT ![a] = "none"]

\* initWhatsAppConnection from makeWASocket on: the listeners (which keep
\* accountId), whatsappSockets[accountId] = sock. A handle that is registered
\* already is neither closed nor looked at.
InitConnection(a) ==
  /\ hstate' = [hstate EXCEPT ![NewHandle] = "connecting"]
  /\ hacct' = [hacct EXCEPT ![NewHandle] = a]
  /\ whatsappSockets' = [whatsappSockets EXCEPT ![a] = NewHandle]

\* A call of initWhatsAppConnection can be followed: no other call is between
\* its findUnique and its makeWASocket, and a handle is left for it.
CanInit == initAccount = 0 /\ UnusedHandles # {}

\* initWhatsAppConnection up to its awaits: findUnique; with no row it throws,
\* the error is caught and logged, and nothing changes.
findAccount(a) == IF accounts[a] # "NONE" THEN a ELSE 0

\* initWhatsAppConnection as a request (getQRCode) or the start of the server
\* (autoConnectWhatsAppAccounts) calls it, up to its awaits.
initWhatsAppConnection(a) ==
  /\ CanInit
  /\ accounts[a] # "NONE"
  /\ initAccount' = findAccount(a)
  /\ loggedOutAccounts' = loggedOutAccounts \ {a}
  /\ UNCHANGED <<accounts, whatsappSockets, socketStatus, hstate, hacct,
                 reconnectTimers, restartPc>>
  /\ UNCHANGED <<fvars, gvars, pvars, stvars, bvars, svars, qvars, jvars, rvars>>

\* initWhatsAppConnection returns to a restartWhatsAppConnection that awaits
\* it (it returns null in both cases; outcome is what happened inside).
initReturns(pc, a, outcome) ==
  IF pc[a] = "init" THEN [pc EXCEPT ![a] = outcome] ELSE pc

\* initWhatsAppConnection after useMultiFileAuthState and import("baileys"):
\* the row is not read again.
InitRegister ==
  /\ initAccount # 0
  /\ InitConnection(initAccount)
  /\ initAccount' = 0
  /\ restartPc' = initReturns(restartPc, initAccount, "opened")
  /\ UNCHANGED <<accounts, socketStatus, reconnectTimers, loggedOutAccounts>>
  /\ UNCHANGED <<fvars, gvars, pvars, stvars, bvars, svars, qvars, jvars, rvars>>

\* initWhatsAppConnection when one of its awaits or makeWASocket throws: the
\* catch logs the error and returns null; no socket is registered.
InitFailed ==
  /\ initAccount # 0
  /\ initAccount' = 0
  /\ restartPc' = initReturns(restartPc, initAccount, "openFailed")
  /\ UNCHANGED <<accounts, whatsappSockets, socketStatus, hstate, hacct,
                 reconnectTimers, loggedOutAccounts>>
  /\ UNCHANGED <<fvars, gvars, pvars, stvars, bvars, svars, qvars, jvars, rvars>>

\* The timer callback going on to makeWASocket without the findUnique.
ReconnectTimerNoFind(a) ==
  /\ reconnectTimers[a] > 0
  /\ CanInit
  /\ reconnectTimers' = [reconnectTimers EXCEPT ![a] = @ - 1]
  /\ initAccount' = a
  /\ UNCHANGED <<accounts, whatsappSockets, socketStatus, hstate, hacct,
                 restartPc, loggedOutAccounts>>
  /\ UNCHANGED <<fvars, gvars, pvars, stvars, bvars, svars, qvars, jvars, rvars>>

\* The callback of setTimeout(() => initWhatsAppConnection(accountId), 5000).
ReconnectTimer(a) ==
  /\ reconnectTimers[a] > 0
  /\ CanInit
  /\ reconnectTimers' = [reconnectTimers EXCEPT ![a] = @ - 1]
  /\ initAccount' = findAccount(a)
  /\ UNCHANGED <<accounts, whatsappSockets, socketStatus, hstate, hacct,
                 restartPc, loggedOutAccounts>>
  /\ UNCHANGED <<fvars, gvars, pvars, stvars, bvars, svars, qvars, jvars, rvars>>

\* The "open" event without its update of the account row.
ConnectionOpenNoUpdate(h) ==
  LET a == hacct[h] IN
  /\ hstate[h] = "connecting"
  /\ hstate' = [hstate EXCEPT ![h] = "open"]
  /\ socketStatus' = [socketStatus EXCEPT ![a] = "open"]
  /\ UNCHANGED <<accounts, whatsappSockets, hacct, reconnectTimers, restartPc,
                 initAccount, loggedOutAccounts>>
  /\ UNCHANGED <<fvars, gvars, pvars, stvars, bvars, svars, qvars, jvars, rvars>>

\* connection.update with connection === "open", from handle h.
ConnectionOpen(h) ==
  LET a == hacct[h] IN
  /\ hstate[h] = "connecting"
  /\ hstate' = [hstate EXCEPT ![h] = "open"]
  /\ socketStatus' = [socketStatus EXCEPT ![a] = "open"]
  /\ accounts' = IF accounts[a] # "NONE"
                 THEN [accounts EXCEPT ![a] = "ACTIVE"] ELSE accounts
  /\ UNCHANGED <<whatsappSockets, hacct, reconnectTimers, restartPc,
                 initAccount, loggedOutAccounts>>
  /\ UNCHANGED <<fvars, gvars, pvars, stvars, bvars, svars, qvars, jvars, rvars>>

\* The "close" event that schedules no reconnect.
ConnectionCloseNoReconnect(h, loggedOut) ==
  LET a == hacct[h] IN
  /\ hstate[h] \in {"connecting", "open"}
  /\ hstate' = [hstate EXCEPT ![h] = IF loggedOut THEN "loggedOut" ELSE "closed"]
  /\ IF accounts[a] = "NONE"
     THEN /\ whatsappSockets' = deleteSocket(whatsappSockets, a)
          /\ socketStatus' = deleteStatus(socketStatus, a)
          /\ UNCHANGED <<accounts, loggedOutAccounts>>
     ELSE /\ accounts' = [accounts EXCEPT ![a] = "INACTIVE"]
          /\ IF ~loggedOut
             THEN /\ socketStatus' = [socketStatus EXCEPT ![a] = "close"]
                  /\ UNCHANGED <<whatsappSockets, loggedOutAccounts>>
             ELSE /\ whatsappSockets' = deleteSocket(whatsappSockets, a)
                  /\ socketStatus' = deleteStatus(socketStatus, a)
                  /\ loggedOutAccounts' = loggedOutAccounts \cup {a}
  /\ UNCHANGED <<hacct, restartPc, initAccount, reconnectTimers>>
  /\ UNCHANGED <<fvars, gvars, pvars, stvars, bvars, svars, qvars, jvars, rvars>>

\* connection.update with connection === "close", from handle h;
\* loggedOut: lastDisconnect's statusCode is DisconnectReason.loggedOut.
ConnectionClose(h, loggedOut) ==
  LET a == hacct[h] IN
  /\ hstate[h] \in {"connecting", "open"}
  /\ hstate' = [hstate EXCEPT ![h] = IF loggedOut THEN "loggedOut" ELSE "closed"]
  /\ IF accounts[a] = "NONE"
     THEN /\ whatsappSockets' = deleteSocket(whatsappSockets, a)
          /\ socketStatus' = deleteStatus(socketStatus, a)
          /\ UNCHANGED <<accounts, reconnectTimers, loggedOutAccounts>>
     ELSE /\ accounts' = [accounts EXCEPT ![a] = "INACTIVE"]
          /\ IF ~loggedOut
             THEN /\ reconnectTimers' = [reconnectTimers EXCEPT ![a] = @ + 1]
                  /\ socketStatus' = [socketStatus EXCEPT ![a] = "close"]
                  /\ UNCHANGED <<whatsappSockets, loggedOutAccounts>>
             ELSE /\ whatsappSockets' = deleteSocket(whatsappSockets, a)
                  /\ socketStatus' = deleteStatus(socketStatus, a)
                  /\ loggedOutAccounts' = loggedOutAccounts \cup {a}
                  /\ UNCHANGED reconnectTimers
  /\ UNCHANGED <<hacct, restartPc, initAccount>>
  /\ UNCHANGED <<fvars, gvars, pvars, stvars, bvars, svars, qvars, jvars, rvars>>

\* restartSession finds the row; restartWhatsAppConnection up to its first
\* write to the table: logout, delete whatsappSockets / socketStatus.
RestartDelete(a) ==
  /\ restartPc[a] = "idle"
  /\ accounts[a] # "NONE"
  /\ whatsappSockets' = deleteSocket(whatsappSockets, a)
  /\ socketStatus' = IF whatsappSockets[a] # 0
                     THEN deleteStatus(socketStatus, a) ELSE socketStatus
  /\ restartPc' = [restartPc EXCEPT ![a] = "deleted"]
  /\ loggedOutAccounts' = loggedOutAccounts \ {a}
  /\ UNCHANGED <<accounts, hstate, hacct, reconnectTimers, initAccount>>
  /\ UNCHANGED <<fvars, gvars, pvars, stvars, bvars, svars, qvars, jvars, rvars>>

\* restartWhatsAppConnection: update status INACTIVE (ignored with no row).
RestartUpdate(a) ==
  /\ restartPc[a] = "deleted"
  /\ accounts' = IF accounts[a] # "NONE"
                 THEN [accounts EXCEPT ![a] = "INACTIVE"] ELSE accounts
  /\ restartPc' = [restartPc EXCEPT ![a] = "inactive"]
  /\ UNCHANGED <<whatsappSockets, socketStatus, hstate, hacct, reconnectTimers,
                 initAccount, loggedOutAccounts>>
  /\ UNCHANGED <<fvars, gvars, pvars, stvars, bvars, svars, qvars, jvars, rvars>>

\* restartWhatsAppConnection after the pause: initWhatsAppConnection, up to
\* its awaits.
RestartInit(a) ==
  /\ restartPc[a] = "inactive"
  /\ CanInit
  /\ restartPc' = [restartPc EXCEPT
                     ![a] = IF findAccount(a) = a THEN "init" ELSE "openFailed"]
  /\ initAccount' = findAccount(a)
  /\ UNCHANGED <<accounts, whatsappSockets, socketStatus, hstate, hacct,
                 reconnectTimers, loggedOutAccounts>>
  /\ UNCHANGED <<fvars, gvars, pvars, stvars, bvars, svars, qvars, jvars, rvars>>

\* restartWhatsAppConnection after initWhatsAppConnection has returned:
\* result === null, whatever happened inside, so it returns null.
restartReturn(a) ==
  /\ restartPc[a] \in {"opened", "openFailed"}
  /\ restartPc' = [restartPc EXCEPT ![a] = "idle"]
  /\ UNCHANGED <<accounts, whatsappSockets, socketStatus, hstate, hacct,
                 reconnectTimers, initAccount, loggedOutAccounts>>
  /\ UNCHANGED <<fvars, gvars, pvars, stvars, bvars, qvars, jvars, rvars>>

\* restartWhatsAppConnection returns to a caller that is not followed.
RestartReturn(a) ==
  /\ restartReturn(a)
  /\ UNCHANGED svars

\* Rows of message_logs that refer to account a.
LogCount(a) ==
  Cardinality({j \in JobIds : messageLog[j] # NoRow /\ messageLog[j].accountId = a})

\* recipientAccountMap.deleteMany({ where: { whatsappAccountId } })
deleteMappings(map, a) == {r \in map : r.whatsappAccountId # a}

\* terminateSession: the controller finds the row; the service deletes the
\* account's mappings, then the row (refused while message_logs rows refer to
\* it: the error is rethrown), then logs out and deletes the map entries.
deleteAccount(a) ==
  /\ accounts[a] # "NONE"
  /\ recipientAccountMap' = deleteMappings(recipientAccountMap, a)
  /\ IF LogCount(a) > 0
     THEN UNCHANGED <<accounts, whatsappSockets, socketStatus, session>>
     ELSE /\ accounts' = [accounts EXCEPT ![a] = "NONE"]
          /\ whatsappSockets' = deleteSocket(whatsappSockets, a)
          /\ socketStatus' = deleteStatus(socketStatus, a)
          /\ session' = {r \in session : r.whatsappAccountId # a}
  /\ loggedOutAccounts' = IF LogCount(a) > 0
                          THEN loggedOutAccounts ELSE loggedOutAccounts \ {a}
  /\ UNCHANGED <<hstate, hacct, reconnectTimers, restartPc, initAccount, sm>>
  /\ UNCHANGED <<fvars, gvars, pvars, avars, kvars, uvars, bvars, qvars, jvars>>

\* terminateSession of whatsappService, called for an account that has a row.
terminateSession(a) ==
  /\ deleteAccount(a)
  /\ UNCHANGED svars

\* No answer given yet.
NoAnswer == [op |-> "none", id |-> 0, code |-> 0]

\* terminateSession of sessionController with delete qrCodeMap[accountId]
\* moved in front of the findUnique.
TerminateSessionRequestDeleteFirst(a) ==
  IF accounts[a] = "NONE"
  THEN /\ answer' = [op |-> "terminate", id |-> a, code |-> 404]
       /\ qrCodeMap' = [qrCodeMap EXCEPT ![a] = FALSE]
       /\ UNCHANGED <<fvars, gvars, pvars, stvars, bvars, qvars, jvars, cvars, rvars>>
  ELSE /\ deleteAccount(a)
       /\ IF LogCount(a) > 0
          THEN /\ answer' = [op |-> "terminate", id |-> a, code |-> 500]
               /\ qrCodeMap' = [qrCodeMap EXCEPT ![a] = FALSE]
          ELSE /\ answer' = [op |-> "terminate", id |-> a, code |-> 200]
               /\ qrCodeMap' = [qrCodeMap EXCEPT ![a] = FALSE]

\* terminateSession of sessionController: 404 with no row; else the service,
\* which rethrows when the row cannot be deleted (500); on success the cached
\* QR string is deleted.
TerminateSessionRequest(a) ==
  IF accounts[a] = "NONE"
  THEN /\ answer' = [op |-> "terminate", id |-> a, code |-> 404]
       /\ UNCHANGED <<qrCodeMap, fvars, gvars, pvars, stvars, bvars, qvars, jvars, cvars, rvars>>
  ELSE /\ deleteAccount(a)
       /\ IF LogCount(a) > 0
          THEN /\ answer' = [op |-> "terminate", id |-> a, code |-> 500]
               /\ UNCHANGED qrCodeMap
          ELSE /\ answer' = [op |-> "terminate", id |-> a, code |-> 200]
               /\ qrCodeMap' = [qrCodeMap EXCEPT ![a] = FALSE]

\* restartSession of sessionController with no row: 404.
RestartSessionNotFound(a) ==
  /\ accounts[a] = "NONE"
  /\ answer' = [op |-> "restart", id |-> a, code |-> 404]
  /\ UNCHANGED <<qrCodeMap, fvars, gvars, pvars, stvars, bvars, qvars, jvars, cvars, rvars>>

\* restartSession of sessionController after restartWhatsAppConnection: the
\* value returned is not looked at, the answer is "Session restart initiated".
RestartSessionRespond(a) ==
  /\ restartReturn(a)
  /\ answer' = [op |-> "restart", id |-> a, code |-> 200]
  /\ UNCHANGED qrCodeMap

\* connection.update with a qr, from handle h: the "qr" event is emitted and
\* the listener of sessionController caches the string.
QrUpdate(h) ==
  /\ hstate[h] = "connecting"
  /\ qrCodeMap' = [qrCodeMap EXCEPT ![hacct[h]] = TRUE]
  /\ UNCHANGED <<answer, fvars, gvars, pvars, stvars, bvars, qvars, jvars, cvars, rvars>>

\* ----------------------------------------------------------- account router
ActiveAccounts == {a \in Accounts : accounts[a] = "ACTIVE"}

\* The mapping of a recipient can be reused: there is one, its account is
\* ACTIVE, and whatsappSockets has a socket for it.
UsableMapping(m) ==
  m # 0 /\ accounts[m] = "ACTIVE" /\ whatsappSockets[m] # 0

IdleRequest == [pc |-> "idle", to |-> <<>>, acc |-> 0]

\* getOrCreateAccountForRecipient up to the reuse of the mapping.
ResolveLookup(to) ==
  LET m == findMapping(recipientAccountMap, formatPhoneNumber(to)) IN
  /\ sm.pc = "idle"
  /\ sm' = IF UsableMapping(m)
           THEN [pc |-> "resolved", to |-> to, acc |-> m]
           ELSE [pc |-> "findFirst", to |-> to, acc |-> 0]
  /\ UNCHANGED <<fvars, gvars, pvars, stvars, bvars, svars, recipientAccountMap, qvars, jvars, cvars>>

\* The findFirst without its status filter: any account that has a row.
ResolveFindFirstAnyStatus ==
  /\ sm.pc = "findFirst"
  /\ IF \A a \in Accounts : accounts[a] = "NONE"
     THEN sm' = [sm EXCEPT !.pc = "failed"]
     ELSE \E a \in {b \in Accounts : accounts[b] # "NONE"} :
            sm' = IF whatsappSockets[a] = 0
                  THEN [sm EXCEPT !.pc = "failed"]
                  ELSE [sm EXCEPT !.pc = "upsert", !.acc = a]
  /\ UNCHANGED <<fvars, gvars, pvars, stvars, bvars, svars, recipientAccountMap, qvars, jvars, cvars>>

\* getOrCreateAccountForRecipient: findFirst({ where: { status: ACTIVE } })
\* (no orderBy: any ACTIVE row), the two throws, the socket check.
ResolveFindFirst ==
  /\ sm.pc = "findFirst"
  /\ IF ActiveAccounts = {}
     THEN sm' = [sm EXCEPT !.pc = "failed"]
     ELSE \E a \in ActiveAccounts :
            sm' = IF whatsappSockets[a] = 0
                  THEN [sm EXCEPT !.pc = "failed"]
                  ELSE [sm EXCEPT !.pc = "upsert", !.acc = a]
  /\ UNCHANGED <<fvars, gvars, pvars, stvars, bvars, svars, recipientAccountMap, qvars, jvars, cvars>>

\* The upsert of a table that has no foreign key to whatsapp_accounts.
ResolveUpsertNoForeignKey ==
  /\ sm.pc = "upsert"
  /\ recipientAccountMap' =
       upsertMapping(recipientAccountMap, formatPhoneNumber(sm.to), sm.acc)
  /\ sm' = [sm EXCEPT !.pc = "resolved"]
  /\ UNCHANGED <<fvars, gvars, pvars, stvars, bvars, svars, qvars, jvars, cvars>>

\* getOrCreateAccountForRecipient: upsert the mapping (refused when the
\* account row is gone), return activeAccount.id.
ResolveUpsert ==
  /\ sm.pc = "upsert"
  /\ IF accounts[sm.acc] = "NONE"
     THEN /\ sm' = [sm EXCEPT !.pc = "failed"]
          /\ UNCHANGED recipientAccountMap
     ELSE /\ recipientAccountMap' =
               upsertMapping(recipientAccountMap, formatPhoneNumber(sm.to), sm.acc)
          /\ sm' = [sm EXCEPT !.pc = "resolved"]
  /\ UNCHANGED <<fvars, gvars, pvars, stvars, bvars, svars, qvars, jvars, cvars>>

\* where: { status: ACTIVE, deletedAt: null }
ActiveNotDeleted == ActiveAccounts \ deletedAt

\* The ACTIVE accounts that have the fewest message_logs rows.
FewestLogs ==
  {a \in ActiveNotDeleted : \A b \in ActiveNotDeleted : LogCount(a) <= LogCount(b)}

\* sendMessage of messageController: findFirst ACTIVE ordered by the count of
\* its message_logs rows ascending (no order among equal counts); 503 if none.
ControllerFindFirst(to) ==
  /\ sm.pc = "idle"
  /\ IF ActiveNotDeleted = {}
     THEN sm' = [pc |-> "failed", to |-> to, acc |-> 0]
     ELSE \E a \in FewestLogs : sm' = [pc |-> "resolved", to |-> to, acc |-> a]
  /\ UNCHANGED <<fvars, gvars, pvars, stvars, bvars, svars, recipientAccountMap, qvars, jvars, cvars>>

\* sendMessage, the rest: queueTextMessage(accountId, phone_number, ...) and
\* 202, or the error answer. Jobs beyond MaxJobs are accepted but not followed.
SendMessageRespond ==
  /\ sm.pc \in {"resolved", "failed"}
  /\ sm' = IdleRequest
  /\ IF sm.pc = "resolved" /\ accounts[sm.acc] # "NONE" /\ nextJob <= MaxJobs
     THEN /\ messageLog' = createMessageLog(messageLog, nextJob, sm.acc, sm.to)
          /\ nextJob' = nextJob + 1
     ELSE UNCHANGED <<messageLog, nextJob>>
  /\ UNCHANGED <<fvars, gvars, pvars, stvars, bvars, svars, pushing, recipientAccountMap, qvars, cvars>>

\* sendTextMessage for job j, the transport send succeeding: it throws with
\* no socket for the job's account; the mapping is upserted afterwards.
sendTextMessage(j) ==
  /\ messageLog[j] # NoRow
  /\ whatsappSockets[messageLog[j].accountId] # 0
  /\ accounts[messageLog[j].accountId] # "NONE"
  /\ recipientAccountMap' =
       upsertMapping(recipientAccountMap, formatPhoneNumber(messageLog[j].to),
                     messageLog[j].accountId)
  /\ UNCHANGED <<fvars, gvars, pvars, stvars, bvars, svars, sm, qvars, jvars, cvars>>

\* ---------------------------------------------------------- specification
\* No job yet, every worker idle.
QueueInit ==
  /\ messageLog = [j \in JobIds |-> NoRow]
  /\ queue_jobs = [j \in JobIds |-> NoRow]
  /\ nextJob = 1
  /\ pushing = {}
  /\ wpc = [w \in Workers |-> "idle"]
  /\ witem = [w \in Workers |-> 0]
  /\ cancelPc = [j \in JobIds |-> "idle"]
  /\ cancelAt = [j \in JobIds |-> "NONE"]
  /\ cancelled = {}
  /\ attempts = [j \in JobIds |-> 0]
  /\ delivered = {}

\* No mapping, no request in progress, no timer, no restart in progress.
RouterInit ==
  /\ recipientAccountMap = {}
  /\ sm = IdleRequest
  /\ reconnectTimers = [a \in Accounts |-> 0]
  /\ restartPc = [a \in Accounts |-> "idle"]
  /\ initAccount = 0
  /\ loggedOutAccounts = {}

\* No call of formatPhoneNumber is followed.
FormatIdle ==
  /\ fmtIn = <<>>
  /\ fmtOut = <<>>
  /\ fmtPc = "idle"

\* ---------------------------------------------------------------------------
\* Validation of the body of a send request

\* A property that is an array (of 0 or 1 items here) or something else.
NotArray == [isArray |-> FALSE, items |-> <<>>]
ArraysOf(S) ==
  {NotArray} \cup {[isArray |-> TRUE, items |-> i] : i \in {<<>>} \cup {<<x>> : x \in S}}

\* A row, a section and a button: for the plain properties, whether the
\* property is there (truthy).
Rows == [title : BOOLEAN, id : BOOLEAN]
Sections == [title : BOOLEAN, rows : ArraysOf(Rows)]
ButtonTypes ==
  {"quick_reply", "cta_url", "cta_call", "cta_copy", "single_select", "other", ""}
Buttons ==
  [type : ButtonTypes, display_text : BOOLEAN, id : BOOLEAN, url : BOOLEAN,
   copy_code : BOOLEAN, title : BOOLEAN, sections : ArraysOf(Sections)]

\* The buttons a request carries: the ones that meet every requirement but
\* one, so that each check of sendMessage decides some request.
RequestButtons ==
  {b \in Buttons :
     /\ b.type \in {"quick_reply", "cta_call"} => (b.url /\ b.copy_code /\ b.title)
     /\ b.type = "cta_url" => (b.id /\ b.copy_code /\ b.title)
     /\ b.type = "cta_copy" => (b.url /\ b.title)
     /\ b.type = "single_select" => (b.id /\ b.url /\ b.copy_code)
     /\ b.type \in {"other", ""} => (b.id /\ b.url /\ b.copy_code /\ b.title)
     /\ b.type # "single_select" => b.sections = NotArray}

MessageTypes == {"text", "image", "video", "document", "button", "other"}

\* req.body of sendMessage.
RequestBodies ==
  [message_type : MessageTypes, message_content : BOOLEAN,
   buttons : ArraysOf(RequestButtons)]

NoBody == [message_type |-> "", message_content |-> FALSE, buttons |-> NotArray]

\* The checks sendMessage makes of one button: TRUE when it returns 400.
buttonRejected(b) ==
  IF b.type = "" \/ ~b.display_text THEN TRUE
  ELSE IF b.type = "quick_reply" THEN ~b.id
  ELSE IF b.type = "cta_url" THEN ~b.url
  ELSE IF b.type = "cta_call" THEN ~b.id
  ELSE IF b.type = "cta_copy" THEN ~b.id \/ ~b.copy_code
  ELSE IF b.type = "single_select"
    THEN \/ ~b.title
         \/ ~b.sections.isArray
         \/ \E i \in DOMAIN b.sections.items :
              LET section == b.sections.items[i] IN
                \/ ~section.title
                \/ ~section.rows.isArray
                \/ \E j \in DOMAIN section.rows.items :
                     ~section.rows.items[j].title \/ ~section.rows.items[j].id
  ELSE TRUE

\* sendMessage: the status it answers with; found tells whether
\* getOrCreateAccountForRecipient returned an account (it throws otherwise).
sendMessageStatus(body, found) ==
  IF ~body.message_content THEN 400
  ELSE IF ~found THEN 500
  ELSE IF body.message_type \in {"text", "image", "video", "document"} THEN 202
  ELSE IF body.message_type = "button"
    THEN IF \/ ~body.buttons.isArray
            \/ body.buttons.items = <<>>
            \/ \E i \in DOMAIN body.buttons.items :
                 buttonRejected(body.buttons.items[i])
         THEN 400 ELSE 202
  ELSE 400

\* A request arrives.
SendMessageReceive(body) ==
  /\ reqPc = "idle"
  /\ reqPc' = "received"
  /\ reqBody' = body
  /\ UNCHANGED <<reqStatus, reqQueued>>
  /\ UNCHANGED <<fvars, gvars, stvars, svars, bvars, qvars, jvars, cvars, rvars>>

\* sendMessage: the job is queued exactly when the answer is 202.
SendMessageAnswer ==
  /\ reqPc = "received"
  /\ reqPc' = "answered"
  /\ \E found \in BOOLEAN :
       /\ reqStatus' = sendMessageStatus(reqBody, found)
       /\ reqQueued' = (sendMessageStatus(reqBody, found) = 202)
  /\ UNCHANGED reqBody
  /\ UNCHANGED <<fvars, gvars, stvars, svars, bvars, qvars, jvars, cvars, rvars>>

\* No send request is followed.
RequestIdle ==
  /\ reqPc = "idle"
  /\ reqBody = NoBody
  /\ reqStatus = 0
  /\ reqQueued = FALSE

\* ---------------------------------------------------------------------------
\* The session store (usePostgresAuthState over table session)

\* The bytes the model's binary payloads are made of.
Bytes == {0, 77, 255}

\* 3 bytes as 4 base64 digits (0..63).
Sextets(b1, b2, b3) ==
  <<b1 \div 4, (b1 % 4) * 16 + b2 \div 16, (b2 % 16) * 4 + b3 \div 64, b3 % 64>>

\* The base64 padding character "=".
Pad == 64

\* Buffer.toString("base64"): groups of 3 bytes, the last group padded.
RECURSIVE toBase64(_)
toBase64(b) ==
  IF Len(b) = 0 THEN <<>>
  ELSE IF Len(b) = 1
    THEN <<Sextets(b[1], 0, 0)[1], Sextets(b[1], 0, 0)[2], Pad, Pad>>
  ELSE IF Len(b) = 2
    THEN <<Sextets(b[1], b[2], 0)[1], Sextets(b[1], b[2], 0)[2],
           Sextets(b[1], b[2], 0)[3], Pad>>
  ELSE Sextets(b[1], b[2], b[3]) \o toBase64(SubSeq(b, 4, Len(b)))

\* Buffer.from(s, "base64"): groups of 4 digits, padding dropped.
RECURSIVE fromBase64(_)
fromBase64(s) ==
  IF Len(s) < 4 THEN <<>>
  ELSE IF s[3] = Pad
    THEN <<s[1] * 4 + s[2] \div 16>>
  ELSE IF s[4] = Pad
    THEN <<s[1] * 4 + s[2] \div 16, (s[2] % 16) * 16 + s[3] \div 4>>
  ELSE <<s[1] * 4 + s[2] \div 16, (s[2] % 16) * 16 + s[3] \div 4,
         (s[3] % 4) * 64 + s[4]>>
       \o fromBase64(SubSeq(s, 5, Len(s)))

\* A value handed to write: a leaf (a Buffer of bytes, or a string of
\* characters) under depth enclosing objects. null is what read returns for
\* no value.
null == [depth |-> 0, kind |-> "null", payload |-> <<>>]

\* creds and keys of the transport: binary payloads nested 0 to 2 deep, among
\* them the empty one and one of each padding length, and a plain string.
StoreValues ==
  { [depth |-> 0, kind |-> "Buffer", payload |-> <<>>],
    [depth |-> 2, kind |-> "Buffer", payload |-> <<0, 255, 77, 255>>],
    [depth |-> 1, kind |-> "string", payload |-> <<77, 0>>] }

\* initAuthCreds(): freshly generated credentials.
initAuthCreds == [depth |-> 1, kind |-> "Buffer", payload |-> <<255, 0>>]

\* JSON.stringify(data, BufferJSON.replacer): a Buffer becomes the object
\* { type: "Buffer", data: <base64> }; everything else is kept.
stringify(v) ==
  IF v.kind = "Buffer"
  THEN [depth |-> v.depth, type |-> "Buffer", data |-> toBase64(v.payload)]
  ELSE [depth |-> v.depth, type |-> v.kind, data |-> v.payload]

\* JSON.parse(data, BufferJSON.reviver): an object of type "Buffer" becomes a
\* Buffer of its decoded data (of no bytes when data is the empty string).
parse(d) ==
  IF d.type = "Buffer"
  THEN [depth |-> d.depth, kind |-> "Buffer",
        payload |-> IF d.data # <<>> THEN fromBase64(d.data) ELSE <<>>]
  ELSE [depth |-> d.depth, kind |-> d.type, payload |-> d.data]

\* fixId: "/" becomes "__" and ":" becomes "-".
RECURSIVE fixId(_)
fixId(id) ==
  IF id = <<>> THEN <<>>
  ELSE (IF Head(id) = "/" THEN <<"_", "_">>
        ELSE IF Head(id) = ":" THEN <<"-">>
        ELSE <<Head(id)>>) \o fixId(Tail(id))

\* The identifier of the credentials, and the identifiers of two keys that
\* fixId maps to one.
credsId == <<"c">>
Identifiers == {credsId, <<"k", ":", "1">>, <<"k", "-", "1">>}

\* model.findUnique({ where: { whatsappAccountId_identifier } })
findUnique(rows, a, fid) ==
  {r \in rows : r.whatsappAccountId = a /\ r.identifier = fid}

\* Whether the store can fail the call, and whether it must: a row of session
\* cannot be written for an account that has no row.
Faults(a) == IF accounts[a] = "NONE" THEN {TRUE} ELSE BOOLEAN

\* write: model.upsert of the serialized data on the normalized identifier; an
\* error of the store is logged and nothing is written.
write(rows, a, id, v, fault) ==
  IF fault THEN rows
  ELSE (rows \ findUnique(rows, a, fixId(id)))
         \cup {[whatsappAccountId |-> a, identifier |-> fixId(id),
                data |-> stringify(v)]}

\* read: the parsed data of the row; null when there is no row, and null when
\* the store fails (the error is logged).
read(rows, a, id, fault) ==
  IF fault \/ findUnique(rows, a, fixId(id)) = {} THEN null
  ELSE parse((CHOOSE r \in findUnique(rows, a, fixId(id)) : TRUE).data)

\* del with a where clause that names the account only.
sessionDeleteMany(rows, a, id, fault) ==
  IF fault THEN rows ELSE {r \in rows : r.whatsappAccountId # a}

\* del: model.delete of the row; an error of the store (no such row is one)
\* is logged.
sessionDelete(rows, a, id, fault) ==
  IF fault THEN rows ELSE rows \ findUnique(rows, a, fixId(id))

\* The keys of table session.
SessionKeys == Accounts \X {fixId(id) : id \in Identifiers}

\* No write recorded for a key.
None == [depth |-> 0, kind |-> "none", payload |-> <<>>]

\* No call of read has returned.
NoRead == [a |-> 0, id |-> <<>>, res |-> null]

\* A call of write returns.
Write(a, id, v) ==
  \E fault \in Faults(a) :
    /\ session' = write(session, a, id, v, fault)
    /\ written' = [written EXCEPT ![<<a, fixId(id)>>] = v]
    /\ UNCHANGED <<lastRead, authCreds, credsRead, callLog, kvars, uvars>>
    /\ UNCHANGED <<fvars, gvars, pvars, svars, bvars, qvars, jvars, cvars, rvars>>

\* A call of read returns.
Read(a, id) ==
  \E fault \in BOOLEAN :
    /\ lastRead' = [a |-> a, id |-> fixId(id),
                    res |-> read(session, a, id, fault)]
    /\ UNCHANGED <<session, written, authCreds, credsRead, callLog, kvars,
                   uvars>>
    /\ UNCHANGED <<fvars, gvars, pvars, svars, bvars, qvars, jvars, cvars, rvars>>

\* A call of del returns.
Del(a, id) ==
  \E fault \in BOOLEAN :
    /\ session' = sessionDelete(session, a, id, fault)
    /\ written' = [written EXCEPT ![<<a, fixId(id)>>] = None]
    /\ UNCHANGED <<lastRead, authCreds, credsRead, callLog, kvars, uvars>>
    /\ UNCHANGED <<fvars, gvars, pvars, svars, bvars, qvars, jvars, cvars, rvars>>

\* usePostgresAuthState: creds = (await read("creds")) || initAuthCreds()
usePostgresAuthState(a) ==
  \E fault \in BOOLEAN :
    /\ authCreds' = [authCreds EXCEPT ![a] =
         IF read(session, a, credsId, fault) = null
         THEN initAuthCreds ELSE read(session, a, credsId, fault)]
    /\ credsRead' = [credsRead EXCEPT ![a] =
         IF fault THEN "fault"
         ELSE IF findUnique(session, a, fixId(credsId)) = {} THEN "absent"
         ELSE "found"]
    /\ UNCHANGED <<session, lastRead, written, callLog, kvars, uvars>>
    /\ UNCHANGED <<fvars, gvars, pvars, svars, bvars, qvars, jvars, cvars, rvars>>

\* saveCreds: write(creds, "creds") of the credentials in memory.
saveCreds(a) ==
  /\ authCreds[a] # None
  /\ \E fault \in Faults(a) :
       session' = write(session, a, credsId, authCreds[a], fault)
  /\ UNCHANGED <<avars, kvars, uvars>>
  /\ UNCHANGED <<fvars, gvars, pvars, svars, bvars, qvars, jvars, cvars, rvars>>

\* The callers that write concurrently.
NumWriters == 2
Writers == 1..NumWriters

\* A writer that is not in a call of write.
NoWrite == [a |-> 0, id |-> <<>>, v |-> null]

\* Nothing of the store is in progress.
StoreIdle ==
  /\ lastRead = NoRead
  /\ written = [k \in SessionKeys |-> None]
  /\ authCreds = [a \in Accounts |-> None]
  /\ credsRead = [a \in Accounts |-> "none"]
  /\ callLog = <<>>
  /\ batchPc = "idle"
  /\ batchTasks = {}
  /\ batchBefore = {}
  /\ upc = [w \in Writers |-> "idle"]
  /\ uarg = [w \in Writers |-> NoWrite]
  /\ ubefore = {}

\* The table is empty and nothing of the store is in progress.
StoreInit ==
  /\ session = {}
  /\ StoreIdle
  /\ RequestIdle

\* ---------------------------------------------------------------------------
\* Registration of accounts: addWhatsAppAccount of the session controller.

\* Phone numbers, with 0 for none.
Phones == 1..NumPhones

\* Requests POST /sessions followed at the same time.
Registrations == 1..NumRegistrations

\* No registration is followed: every account keeps its own phone number.
RegisterIdle ==
  /\ phone_number = [a \in Accounts |-> a]
  /\ regPc = [r \in Registrations |-> "idle"]
  /\ regPhone = [r \in Registrations |-> 0]
  /\ regAccount = [r \in Registrations |-> 0]
  /\ regStatus = [r \in Registrations |-> 0]
  /\ uniqueIndex = FALSE
  /\ deletedAtFilter = TRUE

\* The rows findFirst of addWhatsAppAccount can return for a phone number:
\* one copy of the controller filters on deletedAt: null, the other does not.
existingAccount(p) ==
  {a \in Accounts : /\ accounts[a] # "NONE"
                    /\ phone_number[a] = p
                    /\ (deletedAtFilter => a \notin deletedAt)}

\* The rows a unique index on phone_number compares a new row with: all of
\* them, deleted_at is no part of the index.
indexConflict(p) ==
  uniqueIndex /\ \E a \in Accounts : accounts[a] # "NONE" /\ phone_number[a] = p

\* The ids whatsappAccount.create can give a new row.
FreeIds == {a \in Accounts : accounts[a] = "NONE"}

\* addWhatsAppAccount up to its first await, and the answer of findFirst: with
\* a row found it answers 400 and is done, else it goes on to create.
AddAccountFindFirst(r, p) ==
  /\ regPc[r] = "idle"
  /\ regPhone' = [regPhone EXCEPT ![r] = p]
  /\ IF existingAccount(p) # {}
     THEN /\ regStatus' = [regStatus EXCEPT ![r] = 400]
          /\ regPc' = [regPc EXCEPT ![r] = "done"]
     ELSE /\ regPc' = [regPc EXCEPT ![r] = "create"]
          /\ UNCHANGED regStatus
  /\ UNCHANGED <<phone_number, regAccount, uniqueIndex, deletedAtFilter>>
  /\ UNCHANGED <<fvars, pvars, stvars, bvars, svars, qvars, jvars, rvars,
                 cvars>>

\* whatsappAccount.create: the row gets the next id, the phone number of the
\* request and status INACTIVE. Where the table has the unique index and a
\* row holds the number, create throws, the catch answers 500.
AddAccountCreate(r) ==
  /\ regPc[r] = "create"
  /\ indexConflict(regPhone[r]) \/ FreeIds # {}
  /\ IF indexConflict(regPhone[r])
     THEN /\ regStatus' = [regStatus EXCEPT ![r] = 500]
          /\ regPc' = [regPc EXCEPT ![r] = "done"]
          /\ UNCHANGED <<accounts, phone_number, regAccount>>
     ELSE LET id == CHOOSE a \in FreeIds : \A b \in FreeIds : a <= b IN
            /\ accounts' = [accounts EXCEPT ![id] = "INACTIVE"]
            /\ phone_number' = [phone_number EXCEPT ![id] = regPhone[r]]
            /\ regAccount' = [regAccount EXCEPT ![r] = id]
            /\ regPc' = [regPc EXCEPT ![r] = "init"]
            /\ UNCHANGED regStatus
  /\ UNCHANGED <<regPhone, uniqueIndex, deletedAtFilter>>
  /\ UNCHANGED <<whatsappSockets, socketStatus, hstate, hacct,
                 reconnectTimers, restartPc, initAccount, loggedOutAccounts>>
  /\ UNCHANGED <<fvars, pvars, stvars, bvars, svars, qvars, jvars, rvars>>

\* addWhatsAppAccount calls initWhatsAppConnection(newAccount.id) and awaits
\* it.
AddAccountInit(r) ==
  /\ regPc[r] = "init"
  /\ CanInit
  /\ initAccount' = findAccount(regAccount[r])
  /\ loggedOutAccounts' = loggedOutAccounts \ {regAccount[r]}
  /\ regPc' = [regPc EXCEPT ![r] = "await"]
  /\ UNCHANGED <<phone_number, regPhone, regAccount, regStatus, uniqueIndex,
                 deletedAtFilter>>
  /\ UNCHANGED <<accounts, whatsappSockets, socketStatus, hstate, hacct,
                 reconnectTimers, restartPc>>
  /\ UNCHANGED <<fvars, pvars, stvars, bvars, svars, qvars, jvars, rvars>>

\* initWhatsAppConnection has returned (it returns null when it failed, it
\* does not throw): addWhatsAppAccount answers 201.
AddAccountRespond(r) ==
  /\ regPc[r] = "await"
  /\ initAccount # regAccount[r]
  /\ regStatus' = [regStatus EXCEPT ![r] = 201]
  /\ regPc' = [regPc EXCEPT ![r] = "done"]
  /\ UNCHANGED <<phone_number, regPhone, regAccount, uniqueIndex,
                 deletedAtFilter>>
  /\ UNCHANGED <<fvars, pvars, stvars, bvars, svars, qvars, jvars, rvars,
                 cvars>>

\* No QR string cached, no session request answered.
SessionInit ==
  /\ qrCodeMap = [a \in Accounts |-> FALSE]
  /\ answer = NoAnswer

\* autoConnectWhatsAppAccounts is not followed (it has run, or runs later).
BootIdle ==
  /\ bootPc = "idle"
  /\ bootList = <<>>
  /\ bootOpened = {}

\* No row has deleted_at set.
NoneDeleted == deletedAt = {}

\* The job queue is studied with the connections at rest: account 1 is
\* connected (its handle has reported open), the other accounts have a row
\* and no socket.
Init ==
  /\ QueueInit
  /\ RouterInit
  /\ FormatIdle
  /\ SessionInit
  /\ BootIdle
  /\ NoneDeleted
  /\ StoreInit
  /\ RegisterIdle
  /\ accounts = [a \in Accounts |-> IF a = 1 THEN "ACTIVE" ELSE "INACTIVE"]
  /\ whatsappSockets = [a \in Accounts |-> IF a = 1 THEN 1 ELSE 0]
  /\ socketStatus = [a \in Accounts |-> IF a = 1 THEN "open" ELSE "none"]
  /\ hstate = [h \in Handles |-> IF h = 1 THEN "open" ELSE "unused"]
  /\ hacct = [h \in Handles |-> IF h = 1 THEN 1 ELSE 0]

\* The recipient of the jobs of the queue specification.
QueueRecipients == {<<"0", "8">>}

Next ==
  \/ \E a \in Accounts, to \in QueueRecipients : QueueTextMessageCreate(a, to)
  \/ \E j \in JobIds : QueueTextMessagePush(j)
  \/ \E w \in Workers : WorkerGetNext(w)
  \/ \E w \in Workers : WorkerPutActive(w)
  \/ \E w \in Workers, ok \in BOOLEAN : processMessage(w, ok)
  \/ \E w \in Workers : RetryFire(w)
  \/ \E j \in JobIds : CancelFind(j)
  \/ \E j \in JobIds : CancelUpdate(j)

\* The server has started: every account has a row, INACTIVE, and no
\* connection has been initialised yet.
ServerStarted ==
  /\ QueueInit
  /\ RouterInit
  /\ SessionInit
  /\ RegisterIdle
  /\ accounts = [a \in Accounts |-> "INACTIVE"]
  /\ whatsappSockets = [a \in Accounts |-> 0]
  /\ socketStatus = [a \in Accounts |-> "none"]
  /\ hstate = [h \in Handles |-> "unused"]
  /\ hacct = [h \in Handles |-> 0]

ConnInit ==
  ServerStarted /\ FormatIdle /\ BootIdle /\ NoneDeleted /\ StoreInit

\* The connection manager: requests, timers and transport events.
ConnNext ==
  \/ \E a \in Accounts : initWhatsAppConnection(a)
  \/ InitRegister
  \/ InitFailed
  \/ \E a \in Accounts : ReconnectTimer(a)
  \/ \E h \in Handles : ConnectionOpen(h)
  \/ \E h \in Handles, loggedOut \in BOOLEAN : ConnectionClose(h, loggedOut)
  \/ \E a \in Accounts : RestartDelete(a)
  \/ \E a \in Accounts : RestartUpdate(a)
  \/ \E a \in Accounts : RestartInit(a)
  \/ \E a \in Accounts : RestartReturn(a)
  \/ \E a \in Accounts : terminateSession(a)

\* Timers fire, and a call of initWhatsAppConnection goes on after its awaits.
\* The event loop runs the callback of every timer that has expired, whatever
\* other calls are in progress; the model follows one call of
\* initWhatsAppConnection at a time, so a timer that can fire again and again
\* does fire (strong fairness).
ConnFairness ==
  /\ \A a \in Accounts : SF_vars(ReconnectTimer(a))
  /\ WF_vars(InitRegister)

LiveConnSpec == ConnInit /\ [][ConnNext]_vars /\ ConnFairness

RouterNext ==
  \/ \E a \in Accounts : initWhatsAppConnection(a)
  \/ InitRegister
  \/ InitFailed
  \/ \E a \in Accounts : ReconnectTimer(a)
  \/ \E h \in Handles : ConnectionOpen(h)
  \/ \E h \in Handles, loggedOut \in BOOLEAN : ConnectionClose(h, loggedOut)
  \/ \E a \in Accounts : RestartDelete(a)
  \/ \E a \in Accounts : RestartUpdate(a)
  \/ \E a \in Accounts : RestartInit(a)
  \/ \E a \in Accounts : RestartReturn(a)
  \/ \E a \in Accounts : terminateSession(a)
  \/ \E to \in RawRecipients : ResolveLookup(to)
  \/ ResolveFindFirst
  \/ ResolveUpsert
  \/ \E to \in RawRecipients : ControllerFindFirst(to)
  \/ SendMessageRespond
  \/ \E j \in JobIds : sendTextMessage(j)

RouterSpec == ConnInit /\ [][RouterNext]_vars

Spec == Init /\ [][Next]_vars

\* Workers and timers are scheduled fairly: a handler that can run, runs.
Fairness ==
  /\ \A j \in JobIds : WF_vars(QueueTextMessagePush(j))
  /\ \A j \in JobIds : WF_vars(CancelUpdate(j))
  /\ \A w \in Workers : WF_vars(WorkerGetNext(w))
  /\ \A w \in Workers : WF_vars(WorkerPutActive(w))
  /\ \A w \in Workers : WF_vars(\E ok \in BOOLEAN : processMessage(w, ok))
  /\ \A w \in Workers : WF_vars(RetryFire(w))

LiveSpec == Init /\ [][Next]_vars /\ Fairness

\* Characters a request can put in a recipient address.
Alphabet == {"0", "6", "2", "8", "+"}

\* The sequences over Alphabet of length n.
Strings(n) == [1..n -> Alphabet]

\* The recipient addresses of the scenarios of the README.
ScenarioNumbers ==
  {<<"0", "8", "1", "2", "3", "4", "5", "6", "7", "8", "9", "0">>,
   <<"8", "1", "2", "3", "4", "5", "6", "7", "8", "9", "0">>,
   <<"6", "2", "8", "1", "2", "3", "4", "5", "6", "7", "8", "9", "0">>}

\* The arguments formatPhoneNumber is applied to.
PhoneNumbers == UNION {Strings(n) : n \in 0..MaxLen} \cup ScenarioNumbers

\* A call of formatPhoneNumber with any of the arguments.
FormatInit ==
  /\ ServerStarted
  /\ BootIdle
  /\ NoneDeleted
  /\ StoreInit
  /\ fmtIn \in PhoneNumbers
  /\ fmtOut = <<>>
  /\ fmtPc = "call"

\* The call returns formatPhoneNumber(phoneNumber).
FormatCall ==
  /\ fmtPc = "call"
  /\ fmtOut' = formatPhoneNumber(fmtIn)
  /\ fmtPc' = "return"
  /\ UNCHANGED <<fmtIn, svars, bvars, gvars, stvars, pvars, qvars, jvars, cvars, rvars>>

FormatNext == FormatCall

FormatSpec == FormatInit /\ [][FormatNext]_vars

\* The orders in which findMany (no orderBy) can return the rows of set S.
Orderings(S) ==
  {seq \in [1..Cardinality(S) -> S] :
     \A i, j \in 1..Cardinality(S) : i # j => seq[i] # seq[j]}

\* autoConnectWhatsAppAccounts: prisma.whatsappAccount.findMany({}), every
\* row whatever its deleted_at.
BootFindMany ==
  /\ bootPc = "findMany"
  /\ bootList' \in Orderings({a \in Accounts : accounts[a] # "NONE"})
  /\ bootPc' = IF \A a \in Accounts : accounts[a] = "NONE" THEN "done" ELSE "loop"
  /\ UNCHANGED <<deletedAt, bootOpened, fvars, gvars, pvars, stvars, svars, qvars, jvars, cvars, rvars>>

\* autoConnectWhatsAppAccounts: await initWhatsAppConnection(account.id) for
\* the next account of the loop, up to the awaits of initWhatsAppConnection.
BootOpen ==
  /\ bootPc = "loop"
  /\ CanInit
  /\ initAccount' = findAccount(Head(bootList))
  /\ loggedOutAccounts' = loggedOutAccounts \ {Head(bootList)}
  /\ bootOpened' = bootOpened \cup {Head(bootList)}
  /\ bootPc' = "await"
  /\ UNCHANGED <<accounts, whatsappSockets, socketStatus, hstate, hacct,
                 reconnectTimers, restartPc>>
  /\ UNCHANGED <<deletedAt, bootList, fvars, gvars, pvars, stvars, svars, qvars, jvars, rvars>>

\* autoConnectWhatsAppAccounts: initWhatsAppConnection has returned (null in
\* every case); the loop goes on with the next account, or ends.
BootAwait ==
  /\ bootPc = "await"
  /\ initAccount # Head(bootList)
  /\ bootList' = Tail(bootList)
  /\ bootPc' = IF Tail(bootList) = <<>> THEN "done" ELSE "loop"
  /\ UNCHANGED <<deletedAt, bootOpened, fvars, gvars, pvars, stvars, svars, qvars, jvars, cvars, rvars>>

\* The process starts: rows with any deleted_at, no connection yet.
BootInit ==
  /\ ServerStarted
  /\ FormatIdle
  /\ StoreInit
  /\ deletedAt \in SUBSET Accounts
  /\ bootPc = "findMany"
  /\ bootList = <<>>
  /\ bootOpened = {}

\* autoConnectWhatsAppAccounts with the calls it awaits, the events of the
\* sockets it makes, and session requests that delete or restart an account
\* meanwhile.
BootNext ==
  \/ BootFindMany
  \/ BootOpen
  \/ BootAwait
  \/ InitRegister
  \/ InitFailed
  \/ \E h \in Handles : ConnectionOpen(h)
  \/ \E a \in Accounts : terminateSession(a)

BootSpec == BootInit /\ [][BootNext]_vars

\* The account whose store the calls of StoreNext and BatchNext are made on: write, read and
\* del are closures of one usePostgresAuthState(accountId).
accountId == 1

\* The data of a call of keys.set: a value, or null, for some identifiers.
BatchData ==
  UNION {[ids -> StoreValues \cup {null}] : ids \in SUBSET Identifiers \ {{}}}

\* keys.set: one task per identifier of data, all begun before the await.
keysSet(data) ==
  /\ batchPc \in {"idle", "returned"}
  /\ batchPc' = "running"
  /\ batchTasks' = {[id |-> id, value |-> data[id], settled |-> "pending"] :
                      id \in DOMAIN data}
  /\ batchBefore' = session
  /\ UNCHANGED <<session, avars, uvars>>
  /\ UNCHANGED <<fvars, gvars, pvars, svars, bvars, qvars, jvars, cvars, rvars>>

\* The task t after it has settled.
Settled(t, fault) ==
  [t EXCEPT !.settled = IF fault THEN "failed" ELSE "applied"]

\* keys.set with write and del that do not catch: the first failure rejects
\* Promise.all, and with it the call.
TaskSettlesNoCatch(t) ==
  \E fault \in Faults(accountId) :
    /\ batchPc \in {"running", "raised"}
    /\ t.settled = "pending"
    /\ session' = IF t.value # null
                  THEN write(session, accountId, t.id, t.value, fault)
                  ELSE sessionDelete(session, accountId, t.id, fault)
    /\ batchTasks' = (batchTasks \ {t}) \cup {Settled(t, fault)}
    /\ batchPc' = IF fault THEN "raised" ELSE batchPc
    /\ UNCHANGED <<batchBefore, avars, uvars>>
    /\ UNCHANGED <<fvars, gvars, pvars, svars, bvars, qvars, jvars, cvars, rvars>>

\* keys.set: a task settles: value ? write(value, sId) : del(sId), each of
\* which catches the error of the store.
TaskSettles(t) ==
  \E fault \in Faults(accountId) :
    /\ batchPc = "running"
    /\ t.settled = "pending"
    /\ session' = IF t.value # null
                  THEN write(session, accountId, t.id, t.value, fault)
                  ELSE sessionDelete(session, accountId, t.id, fault)
    /\ batchTasks' = (batchTasks \ {t}) \cup {Settled(t, fault)}
    /\ UNCHANGED <<batchPc, batchBefore, avars, uvars>>
    /\ UNCHANGED <<fvars, gvars, pvars, svars, bvars, qvars, jvars, cvars, rvars>>

\* keys.set: await Promise.all(tasks) resolves when every task has settled.
keysSetReturns ==
  /\ batchPc = "running"
  /\ \A t \in batchTasks : t.settled # "pending"
  /\ batchPc' = "returned"
  /\ UNCHANGED <<session, batchTasks, batchBefore, avars, uvars>>
  /\ UNCHANGED <<fvars, gvars, pvars, svars, bvars, qvars, jvars, cvars, rvars>>

\* The table when the calls of keys.set begin: empty, or holding the
\* credentials of another account.
BatchInit ==
  /\ ServerStarted
  /\ FormatIdle
  /\ BootIdle
  /\ NoneDeleted
  /\ StoreIdle
  /\ RequestIdle
  /\ session \in {{}} \cup
       {{[whatsappAccountId |-> a, identifier |-> fixId(credsId),
          data |-> stringify(initAuthCreds)]} : a \in Accounts \ {accountId}}

\* The calls of keys.set of one account's store, one call at a time.
BatchNext ==
  \/ \E data \in BatchData : keysSet(data)
  \/ \E t \in batchTasks : TaskSettles(t)
  \/ keysSetReturns

BatchSpec == BatchInit /\ [][BatchNext]_vars

\* The row write makes of its arguments.
sessionRow(arg) ==
  [whatsappAccountId |-> arg.a, identifier |-> fixId(arg.id),
   data |-> stringify(arg.v)]

\* Writer w calls write(v, id) on the store of accountId: the data is
\* serialized, the identifier normalized and model.upsert is called.
WriteBegins(w, id, v) ==
  /\ upc[w] = "idle"
  /\ upc' = [upc EXCEPT ![w] = "called"]
  /\ uarg' = [uarg EXCEPT ![w] = [a |-> accountId, id |-> id, v |-> v]]
  /\ ubefore' = ubefore \cup {<<w1, w>> : w1 \in {x \in Writers : upc[x] = "returned"}}
  /\ UNCHANGED <<session, avars, kvars>>
  /\ UNCHANGED <<fvars, gvars, pvars, svars, bvars, qvars, jvars, cvars, rvars>>

\* model.upsert run by the database as one INSERT ... ON CONFLICT DO UPDATE.
upsertNative(w) ==
  /\ upc[w] = "called"
  /\ session' = write(session, uarg[w].a, uarg[w].id, uarg[w].v, FALSE)
  /\ upc' = [upc EXCEPT ![w] = "returned"]
  /\ UNCHANGED <<uarg, ubefore, avars, kvars>>
  /\ UNCHANGED <<fvars, gvars, pvars, svars, bvars, qvars, jvars, cvars, rvars>>

\* model.upsert run by the client, first part: it looks the row up.
upsertFind(w) ==
  /\ upc[w] = "called"
  /\ upc' = [upc EXCEPT ![w] =
       IF findUnique(session, uarg[w].a, fixId(uarg[w].id)) = {}
       THEN "create" ELSE "update"]
  /\ UNCHANGED <<session, uarg, ubefore, avars, kvars>>
  /\ UNCHANGED <<fvars, gvars, pvars, svars, bvars, qvars, jvars, cvars, rvars>>

\* The create of upsertCreate on a table without the unique index.
upsertCreateNoUnique(w) ==
  /\ upc[w] = "create"
  /\ session' = session \cup {sessionRow(uarg[w])}
  /\ upc' = [upc EXCEPT ![w] = "returned"]
  /\ UNCHANGED <<uarg, ubefore, avars, kvars>>
  /\ UNCHANGED <<fvars, gvars, pvars, svars, bvars, qvars, jvars, cvars, rvars>>

\* model.upsert run by the client, no row found: it creates the row; the
\* unique index on (whatsappAccountId, identifier) refuses a second row of the
\* key, and write logs the error.
upsertCreate(w) ==
  /\ upc[w] = "create"
  /\ session' = IF findUnique(session, uarg[w].a, fixId(uarg[w].id)) = {}
                THEN session \cup {sessionRow(uarg[w])}
                ELSE session
  /\ upc' = [upc EXCEPT ![w] = "returned"]
  /\ UNCHANGED <<uarg, ubefore, avars, kvars>>
  /\ UNCHANGED <<fvars, gvars, pvars, svars, bvars, qvars, jvars, cvars, rvars>>

\* model.upsert run by the client, row found: it updates the data of the row
\* (an error that write logs when the row is gone).
upsertUpdate(w) ==
  /\ upc[w] = "update"
  /\ session' = IF findUnique(session, uarg[w].a, fixId(uarg[w].id)) = {}
                THEN session
                ELSE write(session, uarg[w].a, uarg[w].id, uarg[w].v, FALSE)
  /\ upc' = [upc EXCEPT ![w] = "returned"]
  /\ UNCHANGED <<uarg, ubefore, avars, kvars>>
  /\ UNCHANGED <<fvars, gvars, pvars, svars, bvars, qvars, jvars, cvars, rvars>>

\* Every write has returned: the writers are free for their next calls.
WritersDone ==
  /\ \A w \in Writers : upc[w] = "returned"
  /\ upc' = [w \in Writers |-> "idle"]
  /\ uarg' = [w \in Writers |-> NoWrite]
  /\ ubefore' = {}
  /\ UNCHANGED <<session, avars, kvars>>
  /\ UNCHANGED <<fvars, gvars, pvars, svars, bvars, qvars, jvars, cvars, rvars>>

\* Concurrent calls of write on one account's store; the client runs
\* model.upsert natively or in two parts, depending on its version.
UpsertNext ==
  \/ \E w \in Writers, id \in Identifiers, v \in StoreValues : WriteBegins(w, id, v)
  \/ \E w \in Writers : upsertNative(w)
  \/ \E w \in Writers : upsertFind(w)
  \/ \E w \in Writers : upsertCreate(w)
  \/ \E w \in Writers : upsertUpdate(w)
  \/ WritersDone

UpsertSpec == ConnInit /\ [][UpsertNext]_vars

\* The calls of write, read and del of one account's store, one at a time.
StoreNext ==
  \/ \E id \in Identifiers, v \in StoreValues : Write(accountId, id, v)
  \/ \E id \in Identifiers : Read(accountId, id)
  \/ \E id \in Identifiers : Del(accountId, id)

StoreSpec == ConnInit /\ [][StoreNext]_vars

\* One caller's calls of write and del on the store of accountId, one after
\* the other, with the calls made so far.
WriteCall(id, v) ==
  \E fault \in Faults(accountId) :
    /\ Len(callLog) < MaxCalls
    /\ session' = write(session, accountId, id, v, fault)
    /\ written' = [written EXCEPT ![<<accountId, fixId(id)>>] = v]
    /\ callLog' = Append(callLog, [op |-> "write", id |-> id, v |-> v])
    /\ UNCHANGED <<lastRead, authCreds, credsRead, kvars, uvars>>
    /\ UNCHANGED <<fvars, gvars, pvars, svars, bvars, qvars, jvars, cvars, rvars>>

DelCall(id) ==
  \E fault \in BOOLEAN :
    /\ Len(callLog) < MaxCalls
    /\ session' = sessionDelete(session, accountId, id, fault)
    /\ written' = [written EXCEPT ![<<accountId, fixId(id)>>] = None]
    /\ callLog' = Append(callLog, [op |-> "del", id |-> id, v |-> null])
    /\ UNCHANGED <<lastRead, authCreds, credsRead, kvars, uvars>>
    /\ UNCHANGED <<fvars, gvars, pvars, svars, bvars, qvars, jvars, cvars, rvars>>

CallsNext ==
  \/ \E id \in Identifiers, v \in StoreValues : WriteCall(id, v)
  \/ \E id \in Identifiers : DelCall(id)

CallsSpec == ConnInit /\ [][CallsNext]_vars

\* The credentials of the accounts: loaded by usePostgresAuthState, saved by
\* saveCreds, written, read and deleted in the store.
CredsNext ==
  \/ \E a \in Accounts : usePostgresAuthState(a)
  \/ \E a \in Accounts : saveCreds(a)
  \/ \E a \in Accounts, v \in StoreValues : Write(a, credsId, v)
  \/ \E a \in Accounts : Read(a, credsId)
  \/ \E a \in Accounts : Del(a, credsId)

CredsSpec == ConnInit /\ [][CredsNext]_vars

\* A send request with any body.
ValidateInit ==
  /\ ServerStarted
  /\ FormatIdle
  /\ BootIdle
  /\ NoneDeleted
  /\ session = {}
  /\ StoreIdle
  /\ RequestIdle

\* sendMessage on one request.
ValidateNext ==
  \/ \E body \in RequestBodies : SendMessageReceive(body)
  \/ SendMessageAnswer

ValidateSpec == ValidateInit /\ [][ValidateNext]_vars

\* The queue while the connections of the accounts close.
RetryNext ==
  \/ Next
  \/ \E h \in Handles, loggedOut \in BOOLEAN : ConnectionClose(h, loggedOut)

RetrySpec == Init /\ [][RetryNext]_vars

\* sendMessage of part_004 with the calls it awaits. After the check of
\* message_content it calls getOrCreateAccountForRecipient(phone_number).
SendMessageResolve(to) ==
  /\ reqPc = "received"
  /\ reqBody.message_content
  /\ reqStatus = 0
  /\ ResolveLookup(to)

\* sendMessage of part_004, the rest: without message_content it answers 400
\* at once; otherwise getOrCreateAccountForRecipient has returned or thrown,
\* the message type and the buttons are checked, and the job is queued with
\* the answer 202 (queueMediaMessage and queueButtonMessage make a job like
\* queueTextMessage does).
SendMessageFinish ==
  LET found == sm.pc = "resolved"
      status == sendMessageStatus(reqBody, found) IN
  /\ reqPc = "received"
  /\ IF reqBody.message_content
     THEN sm.pc \in {"resolved", "failed"}
     ELSE sm.pc = "idle"
  /\ reqPc' = "answered"
  /\ reqStatus' = status
  /\ reqQueued' = (status = 202)
  /\ sm' = IdleRequest
  /\ IF status = 202 /\ nextJob <= MaxJobs
     THEN /\ messageLog' = createMessageLog(messageLog, nextJob, sm.acc, sm.to)
          /\ pushing' = pushing \cup {nextJob}
          /\ nextJob' = nextJob + 1
     ELSE UNCHANGED <<messageLog, pushing, nextJob>>
  /\ UNCHANGED <<reqBody, recipientAccountMap, qvars, cvars>>
  /\ UNCHANGED <<fvars, gvars, stvars, svars, bvars>>

\* The bodies of the requests followed to their jobs: buttons only where the
\* message type looks at them.
AffinityBodies ==
  {body \in RequestBodies :
     body.message_type # "button" => body.buttons = NotArray}

\* One send request from its arrival to the delivery attempts of its job,
\* with the connection of the account closing at any time.
AffinityNext ==
  \/ \E body \in AffinityBodies : SendMessageReceive(body)
  \/ \E to \in RawRecipients : SendMessageResolve(to)
  \/ ResolveFindFirst
  \/ ResolveUpsert
  \/ SendMessageFinish
  \/ \E j \in JobIds : QueueTextMessagePush(j)
  \/ \E w \in Workers : WorkerGetNext(w)
  \/ \E w \in Workers : WorkerPutActive(w)
  \/ \E w \in Workers, ok \in BOOLEAN : processMessage(w, ok)
  \/ \E w \in Workers : RetryFire(w)
  \/ \E h \in Handles, loggedOut \in BOOLEAN : ConnectionClose(h, loggedOut)

AffinitySpec == Init /\ [][AffinityNext]_vars

\* The session controller over the connection manager.
SessionNext ==
  \/ \E a \in Accounts : initWhatsAppConnection(a)
  \/ InitRegister
  \/ InitFailed
  \/ \E a \in Accounts : ReconnectTimer(a)
  \/ \E h \in Handles : QrUpdate(h)
  \/ \E h \in Handles : ConnectionOpen(h)
  \/ \E h \in Handles, loggedOut \in BOOLEAN : ConnectionClose(h, loggedOut)
  \/ \E a \in Accounts : TerminateSessionRequest(a)
  \/ \E a \in Accounts : RestartSessionNotFound(a)
  \/ \E a \in Accounts : RestartDelete(a)
  \/ \E a \in Accounts : RestartUpdate(a)
  \/ \E a \in Accounts : RestartInit(a)
  \/ \E a \in Accounts : RestartSessionRespond(a)

SessionSpec == ConnInit /\ [][SessionNext]_vars

\* Registrations arrive at a server with no account yet, or with account 1
\* of phone number 1, deleted or not; the table has the unique index on
\* phone_number or not, the controller filters on deletedAt or not.
RegisterInit ==
  /\ QueueInit
  /\ RouterInit
  /\ SessionInit
  /\ FormatIdle
  /\ BootIdle
  /\ StoreInit
  /\ accounts \in {[a \in Accounts |-> "NONE"],
                   [a \in Accounts |-> IF a = 1 THEN "INACTIVE" ELSE "NONE"]}
  /\ deletedAt \in SUBSET {a \in Accounts : accounts[a] # "NONE"}
  /\ whatsappSockets = [a \in Accounts |-> 0]
  /\ socketStatus = [a \in Accounts |-> "none"]
  /\ hstate = [h \in Handles |-> "unused"]
  /\ hacct = [h \in Handles |-> 0]
  /\ phone_number = [a \in Accounts |-> IF accounts[a] = "NONE" THEN 0 ELSE 1]
  /\ regPc = [r \in Registrations |-> "idle"]
  /\ regPhone = [r \in Registrations |-> 0]
  /\ regAccount = [r \in Registrations |-> 0]
  /\ regStatus = [r \in Registrations |-> 0]
  /\ uniqueIndex \in BOOLEAN
  /\ deletedAtFilter \in BOOLEAN

\* Concurrent requests POST /sessions and the connections they start.
RegisterNext ==
  \/ \E r \in Registrations, p \in Phones : AddAccountFindFirst(r, p)
  \/ \E r \in Registrations : AddAccountCreate(r)
  \/ \E r \in Registrations : AddAccountInit(r)
  \/ \E r \in Registrations : AddAccountRespond(r)
  \/ InitRegister
  \/ InitFailed

RegisterSpec == RegisterInit /\ [][RegisterNext]_vars

\* ------------------------------------------------------------------ claims
Terminal == {"SENT", "FAILED"}

\* Workers that hold job j between their claim and the report of the attempt.
InFlight(j) == {w \in Workers : wpc[w] = "active" /\ witem[w] = j}

\* C1: in every reachable state, every job has at most one delivery attempt
\* in flight, for any number of workers sharing the job store.
C1_OneAttemptInFlight ==
  \A j \in JobIds : Cardinality(InFlight(j)) <= 1

\* C2: of two workers that try to claim the same PENDING job exactly one
\* succeeds: no claim completes on a job that another claimant has already
\* flipped to active.
C2_OneClaimSucceeds ==
  [][\A w \in Workers :
       (wpc[w] = "claimed" /\ wpc'[w] = "active")
         => ~(queue_jobs[witem[w]] # NoRow
              /\ queue_jobs[witem[w]].status = "active")]_vars

\* C3: the status stored for a job never decreases in the order
\* PENDING < {SENT, FAILED}, and once it is SENT or FAILED it never changes.
StatusRank(st) == IF st = "PENDING" THEN 0 ELSE 2

C3_StatusMonotonic ==
  [][\A j \in JobIds :
       messageLog[j] # NoRow =>
         /\ messageLog'[j] # NoRow
         /\ StatusRank(messageLog'[j].status) >= StatusRank(messageLog[j].status)
         /\ (messageLog[j].status \in Terminal
               => messageLog'[j].status = messageLog[j].status)]_vars

\* C4: a job whose every attempt fails (and that nobody cancelled) is never
\* attempted more than maxRetryCount + 1 times, has made exactly that many
\* attempts when it is FAILED, and is not attempted after it is FAILED.
C4_ExactAttempts ==
  \A j \in JobIds :
    (messageLog[j] # NoRow /\ j \notin delivered /\ j \notin cancelled) =>
      /\ attempts[j] <= maxRetryCount + 1
      /\ (messageLog[j].status = "FAILED" => attempts[j] = maxRetryCount + 1)

\* C5: a cancel answers success only if the job was PENDING when it was
\* called: not when the job was ACTIVE (claimed by a worker), SENT or FAILED.
C5_CancelOnlyPending ==
  \A j \in JobIds : cancelPc[j] = "update" => cancelAt[j] = "PENDING"

C7_SentThenNoAttempt ==
  [][\A j \in JobIds :
       /\ (j \in delivered' /\ j \notin delivered)
            => (messageLog'[j].status = "SENT"
                /\ messageLog'[j].sentTime = "sent")
       /\ j \in delivered => attempts'[j] = attempts[j]]_vars

Decides == sm.pc \in {"idle", "findFirst"}
             /\ sm'.pc \in {"resolved", "upsert", "failed"}

\* The request in progress has just decided on an account.
Chooses == sm.pc \in {"idle", "findFirst"} /\ sm'.pc \in {"resolved", "upsert"}

\* C9: while exactly one account is ACTIVE (the others INACTIVE or absent),
\* every resolution of a recipient, whatever its mapping, returns that account.
C9_OnlyActiveAccountReturned ==
  [][\A a \in Accounts :
       (Decides /\ ActiveAccounts = {a})
         => (sm'.pc # "failed" /\ sm'.acc = a)]_vars

\* The ACTIVE account with the fewest message_logs rows, the lowest id among
\* equals.
LeastLoaded ==
  CHOOSE a \in FewestLogs : \A b \in FewestLogs : a <= b

\* C10: a recipient without usable mapping is resolved to the ACTIVE account
\* with the fewest message_logs rows, the lowest account id among equals.
C10_FewestLogsLowestId ==
  [][(Chooses
        /\ ~UsableMapping(findMapping(recipientAccountMap,
                                      formatPhoneNumber(sm'.to))))
       => sm'.acc = LeastLoaded]_vars

\* The account the mapping of recipient to points to (0: no mapping).
Mapped(to) == findMapping(recipientAccountMap, formatPhoneNumber(to))

\* C11: a recipient whose mapping points to an account that is ACTIVE and has
\* a handle is resolved to that account, whatever the other accounts are, and
\* its mapping still points to that account afterwards.
C11_UsableAffinityReused ==
  [][(sm.pc = "idle" /\ sm'.pc # "idle" /\ UsableMapping(Mapped(sm'.to)))
       => /\ sm'.pc = "resolved"
          /\ sm'.acc = Mapped(sm'.to)
          /\ findMapping(recipientAccountMap', formatPhoneNumber(sm'.to))
               = Mapped(sm'.to)]_vars

\* What a rejected request must leave alone: jobs and mappings.
NothingAccepted ==
  UNCHANGED <<recipientAccountMap, messageLog, nextJob, pushing, queue_jobs>>

\* C12: a request decided while no account is ACTIVE fails, and neither its
\* decision nor its answer accepts a job or writes a mapping.
C12_NoCapacityFails ==
  [][/\ (Decides /\ ActiveAccounts = {})
          => (sm'.pc = "failed" /\ NothingAccepted)
     /\ (sm.pc = "failed" /\ sm'.pc = "idle") => NothingAccepted]_vars

\* C12 witness: a request has failed while no account is ACTIVE and a mapping
\* written earlier is in the table.
C12_Witness ==
  /\ sm.pc = "failed"
  /\ ActiveAccounts = {}
  /\ recipientAccountMap # {}

\* C13: a recipient mapped to an account that is not ACTIVE with a handle,
\* while another account is, is resolved to an available account other than
\* the mapped one, and when the call returns the mapping points to the
\* account returned.
C13_StaleAffinityMigrates ==
  [][/\ (/\ sm.pc = "findFirst" /\ sm'.pc # "findFirst"
         /\ Mapped(sm.to) # 0 /\ ~UsableMapping(Mapped(sm.to))
         /\ \E b \in Accounts \ {Mapped(sm.to)} : UsableMapping(b))
          => (/\ sm'.pc = "upsert"
              /\ sm'.acc # Mapped(sm.to)
              /\ UsableMapping(sm'.acc))
     /\ (sm.pc = "upsert" /\ sm'.pc = "resolved")
          => findMapping(recipientAccountMap', formatPhoneNumber(sm.to))
               = sm'.acc]_vars

\* C14: the table never holds two mappings for one normalized recipient
\* address, whatever the format the address was written in and whichever
\* accounts resolutions and successful sends put in it.
C14_OneMappingPerRecipient ==
  \A r1, r2 \in recipientAccountMap :
    formatPhoneNumber(r1.recipientNumber) = formatPhoneNumber(r2.recipientNumber)
      => r1 = r2

\* C14 witness: a resolution is about to upsert the mapping of a recipient
\* for which a job written in another format is bound to another account than
\* the one the mapping names.
C14_Witness ==
  \E r \in recipientAccountMap, j \in JobIds :
    /\ messageLog[j] # NoRow
    /\ formatPhoneNumber(messageLog[j].to) = r.recipientNumber
    /\ messageLog[j].accountId # r.whatsappAccountId
    /\ sm.pc = "upsert"
    /\ formatPhoneNumber(sm.to) = r.recipientNumber
    /\ sm.to # messageLog[j].to

\* The digits of s, in their order.
RECURSIVE DigitsOf(_)
DigitsOf(s) ==
  IF s = <<>> THEN <<>>
  ELSE IF Head(s) \in Digits THEN <<Head(s)>> \o DigitsOf(Tail(s))
  ELSE DigitsOf(Tail(s))

\* s starts with the characters of prefix.
StartsWith(s, prefix) ==
  Len(s) >= Len(prefix) /\ SubSeq(s, 1, Len(prefix)) = prefix

\* C15: normalization strips every non-digit, rewrites a leading "0" to "62",
\* prepends "62" when the digits start with neither "0" nor "62", and leaves
\* digits that start with "62" unchanged; "081234567890", "81234567890" and
\* "6281234567890" all normalize to "6281234567890".
C15_Normalization ==
  fmtPc = "return" =>
    LET d == DigitsOf(fmtIn) IN
    /\ StartsWith(d, <<"0">>) => fmtOut = <<"6", "2">> \o SubSeq(d, 2, Len(d))
    /\ (~StartsWith(d, <<"0">>) /\ ~StartsWith(d, <<"6", "2">>))
         => fmtOut = <<"6", "2">> \o d
    /\ StartsWith(d, <<"6", "2">>) => fmtOut = d
    /\ fmtIn \in ScenarioNumbers
         => fmtOut = <<"6", "2", "8", "1", "2", "3", "4", "5", "6", "7", "8",
                       "9", "0">>

\* C15 witness: an address with a character that is no digit and a leading
\* "0" has been normalized.
C15_Witness ==
  /\ fmtPc = "return"
  /\ fmtIn = <<"+", "0", "8">>
  /\ fmtOut = <<"6", "2", "8">>

\* The handle registered for account a is connecting or open.
LiveConnection(a) ==
  whatsappSockets[a] # 0 /\ hstate[whatsappSockets[a]] \in {"connecting", "open"}

\* This step creates handle h for account a.
Creates(h, a) == hstate[h] = "unused" /\ hstate'[h] # "unused" /\ hacct'[h] = a

\* C16: while the handle registered for an account is connecting or open, no
\* step (a call of initWhatsAppConnection by the QR-code request, the
\* reconnect timer or restart) creates a new handle for the account or
\* replaces the registered handle by another one.
C16_OpenIdempotent ==
  [][\A a \in Accounts :
       LiveConnection(a) =>
         /\ \A h \in Handles : ~Creates(h, a)
         /\ whatsappSockets'[a] \in {0, whatsappSockets[a]}]_vars

\* Handle h has just handled its "open" event.
Opened(h) == hstate[h] = "connecting" /\ hstate'[h] = "open"

\* C17: when the "open" event of a handle has been handled, the status of its
\* account is ACTIVE if the account has a row; if the row is gone the event
\* is handled all the same and no row comes back.
C17_ConnectedIsActive ==
  [][\A h \in Handles :
       Opened(h) =>
         /\ accounts[hacct[h]] # "NONE" => accounts'[hacct[h]] = "ACTIVE"
         /\ accounts[hacct[h]] = "NONE" => accounts' = accounts]_vars

\* C17 witness: one handle is open with its account ACTIVE, another one is
\* open although the row of its account has been deleted.
C17_Witness ==
  \E h1, h2 \in Handles :
    /\ hstate[h1] = "open" /\ accounts[hacct[h1]] = "ACTIVE"
    /\ socketStatus[hacct[h1]] = "open"
    /\ hstate[h2] = "open" /\ accounts[hacct[h2]] = "NONE"

\* Handle h has just handled a "close" event whose reason is not loggedOut.
NonTerminalClose(h) ==
  hstate[h] \in {"connecting", "open"} /\ hstate'[h] = "closed"

\* C18: a "close" event whose reason is not loggedOut leaves the account (if
\* it has a row) INACTIVE and schedules one reconnect, nothing else schedules
\* one; a timer that fires calls initWhatsAppConnection for its account; and,
\* timers being fair, every scheduled reconnect fires as long as the transport
\* has a handle to give.
C18_DisconnectReconnects ==
  /\ [][\A h \in Handles :
          (NonTerminalClose(h) /\ accounts[hacct[h]] # "NONE")
            => /\ accounts'[hacct[h]] = "INACTIVE"
               /\ reconnectTimers'[hacct[h]] = reconnectTimers[hacct[h]] + 1]_vars
  /\ [][\A a \in Accounts :
          /\ reconnectTimers'[a] > reconnectTimers[a]
               => \E h \in Handles : NonTerminalClose(h) /\ hacct[h] = a
          /\ (reconnectTimers'[a] < reconnectTimers[a] /\ accounts[a] # "NONE")
               => initAccount' = a]_vars
  /\ \A a \in Accounts, n \in 1..MaxHandles :
       (reconnectTimers[a] = n)
         ~> (reconnectTimers[a] < n \/ UnusedHandles = {})

\* C18 witness: a handle of an account was closed for another reason than
\* loggedOut, the timer has fired and its call has registered a new handle.
C18_Witness ==
  \E a \in Accounts, h1, h2 \in Handles :
    /\ hstate[h1] = "closed" /\ hacct[h1] = a
    /\ accounts[a] = "INACTIVE"
    /\ reconnectTimers[a] = 0
    /\ h2 # h1 /\ whatsappSockets[a] = h2 /\ hstate[h2] = "connecting"

\* Handle h has just handled a "close" event whose reason is loggedOut.
TerminalClose(h) ==
  hstate[h] \in {"connecting", "open"} /\ hstate'[h] = "loggedOut"

\* C19: a "close" event whose reason is loggedOut removes the account's handle
\* from whatsappSockets and schedules no reconnect, and the account stays
\* INACTIVE in every later state until a request opens or restarts it.
C19_LoggedOutStaysInactive ==
  /\ [][\A h \in Handles :
          (TerminalClose(h) /\ accounts[hacct[h]] # "NONE")
            => /\ whatsappSockets'[hacct[h]] = 0
               /\ reconnectTimers' = reconnectTimers
               /\ accounts'[hacct[h]] = "INACTIVE"]_vars
  /\ [](\A a \in loggedOutAccounts : accounts[a] = "INACTIVE")

\* This step is a terminateSession of account a: its row or one of its
\* mappings is deleted.
Closes(a) ==
  \/ accounts[a] # "NONE" /\ accounts'[a] = "NONE"
  \/ \E r \in recipientAccountMap :
       /\ r.whatsappAccountId = a
       /\ findMapping(recipientAccountMap', r.recipientNumber) = 0

\* C20: terminateSession of an account that has a row always ends with the
\* row and the mappings of the account deleted and nothing for the account in
\* whatsappSockets and socketStatus, and nothing for a deleted account comes
\* back later.
C20_CloseDeletesAll ==
  /\ [][\A a \in Accounts :
          Closes(a) =>
            /\ accounts'[a] = "NONE"
            /\ deleteMappings(recipientAccountMap', a) = recipientAccountMap'
            /\ whatsappSockets'[a] = 0
            /\ socketStatus'[a] = "none"]_vars
  /\ [](\A a \in Accounts :
          accounts[a] = "NONE" =>
            /\ whatsappSockets[a] = 0
            /\ socketStatus[a] = "none"
            /\ deleteMappings(recipientAccountMap, a) = recipientAccountMap)

\* This step answers a terminateSession request for account a, which has no
\* row.
NotFoundClose(a) ==
  /\ accounts[a] = "NONE"
  /\ answer' # answer
  /\ answer'.op = "terminate" /\ answer'.id = a

\* C21: a terminateSession request for an account that has no row answers 404
\* and changes nothing: no row, mapping, socket, status, timer or cached QR
\* string is created, changed or removed.
C21_CloseNotFound ==
  [][\A a \in Accounts :
       NotFoundClose(a) =>
         /\ answer'.code = 404
         /\ UNCHANGED <<qrCodeMap, qvars, jvars, cvars, rvars>>]_vars

\* C21 witness: a request for a deleted account has answered 404 while a QR
\* string of a socket that outlived the account is cached for it.
C21_Witness ==
  /\ answer = [op |-> "terminate", id |-> answer.id, code |-> 404]
  /\ answer.id \in Accounts
  /\ accounts[answer.id] = "NONE"
  /\ qrCodeMap[answer.id]

\* This step is the return of a restart of account a in which a step failed:
\* the re-open threw, or the account had no row for the status update.
FailedRestartReturns(a) ==
  /\ restartPc[a] = "openFailed"
  /\ restartPc'[a] = "idle"

\* C22: when a restart in which a step failed returns, the status of the
\* account is INACTIVE and the caller is told of the failure (the answer is
\* not the success answer).
C22_FailedRestartReported ==
  [][\A a \in Accounts :
       FailedRestartReturns(a) =>
         /\ accounts'[a] = "INACTIVE"
         /\ answer' = [op |-> "restart", id |-> a, code |-> 500]]_vars

C24_WriteReadRoundTrip ==
  [][\A a \in Accounts, id \in Identifiers :
       (Read(a, id) /\ written[<<a, fixId(id)>>] # None)
         => lastRead'.res = written[<<a, fixId(id)>>]]_vars

\* The record of the credentials of account a, as a set of rows.
CredsRecord(a) == findUnique(session, a, fixId(credsId))

\* C25: read returns null exactly when the key has no record; opening an
\* account takes the stored credentials whenever a "creds" record exists; and
\* saveCreds leaves a "creds" record that exists as it is when the read of the
\* credentials had failed.
C25_AbsentIsNotFault ==
  /\ [][\A a \in Accounts, id \in Identifiers :
          Read(a, id)
            => (lastRead'.res = null <=> findUnique(session, a, fixId(id)) = {})]_vars
  /\ [][\A a \in Accounts :
          (usePostgresAuthState(a) /\ CredsRecord(a) # {})
            => authCreds'[a] = parse((CHOOSE r \in CredsRecord(a) : TRUE).data)]_vars
  /\ [][\A a \in Accounts :
          (saveCreds(a) /\ credsRead[a] = "fault" /\ CredsRecord(a) # {})
            => findUnique(session', a, fixId(credsId)) = CredsRecord(a)]_vars

\* The rows of table rows other than the one of key <<a, fid>>.
OtherRows(rows, a, fid) == rows \ findUnique(rows, a, fid)

\* The task t of the running call of keys.set settles in this step.
Settles(t) ==
  /\ t \in batchTasks
  /\ t.settled = "pending"
  /\ batchTasks' # batchTasks
  /\ t \notin batchTasks'

\* C26: a call of keys.set never raises; a task the store does not fail is
\* applied (its record holds the serialized value, or is gone for a null
\* value) whatever happened to the tasks settled before it; no task changes a
\* record other than its own; and when the call has returned every task has
\* settled and the records of keys the call does not name are as they were
\* when it began.
C26_BatchFailuresIsolated ==
  /\ [](batchPc # "raised")
  /\ [][\A t \in batchTasks :
          Settles(t) =>
            /\ OtherRows(session', accountId, fixId(t.id))
                 = OtherRows(session, accountId, fixId(t.id))
            /\ Settled(t, FALSE) \in batchTasks' =>
                 findUnique(session', accountId, fixId(t.id))
                   = IF t.value = null THEN {}
                     ELSE {[whatsappAccountId |-> accountId,
                            identifier |-> fixId(t.id),
                            data |-> stringify(t.value)]}]_vars
  /\ [](batchPc = "returned" =>
          /\ \A t \in batchTasks : t.settled # "pending"
          /\ \A r \in (session \ batchBefore) \cup (batchBefore \ session) :
               /\ r.whatsappAccountId = accountId
               /\ \E t \in batchTasks : fixId(t.id) = r.identifier)

\* C26 witness: a call of keys.set of several tasks has returned; the store
\* failed one of them and another one has created its record.
C26_Witness ==
  /\ batchPc = "returned"
  /\ \E t1, t2 \in batchTasks :
       /\ t1.settled = "failed"
       /\ t2.settled = "applied"
       /\ t2.value # null
       /\ fixId(t1.id) # fixId(t2.id)
       /\ findUnique(batchBefore, accountId, fixId(t2.id)) = {}
       /\ findUnique(session, accountId, fixId(t2.id)) # {}

\* The writers of the round whose write is on key fid of accountId.
WritersOf(fid) == {w \in Writers : fixId(uarg[w].id) = fid}

\* Writer w changes its position in this step.
WriterSteps(w) == upc'[w] # upc[w] /\ upc[w] # "returned"

\* C27: when all concurrent writes have returned, each key written holds
\* exactly one record, whose data is the value of one of the writes of the
\* key, one that no other write of the key began after; and a step of a write
\* changes no record of another key.
C27_WritesLinearizable ==
  /\ []((\A w \in Writers : upc[w] = "returned") =>
          \A fid \in {fixId(id) : id \in Identifiers} :
            WritersOf(fid) # {} =>
              /\ Cardinality(findUnique(session, accountId, fid)) = 1
              /\ \E w \in WritersOf(fid) :
                   /\ findUnique(session, accountId, fid) = {sessionRow(uarg[w])}
                   /\ \A w2 \in WritersOf(fid) : <<w, w2>> \notin ubefore)
  /\ [][\A w \in Writers :
          WriterSteps(w) =>
            OtherRows(session', accountId, fixId(uarg'[w].id))
              = OtherRows(session, accountId, fixId(uarg'[w].id))]_vars

\* C27 witness: two writes of different values on one key overlapped (neither
\* returned before the other began), both have returned and the key holds the
\* record of one of them.
C27_Witness ==
  /\ \A w \in Writers : upc[w] = "returned"
  /\ ubefore = {}
  /\ \E w1, w2 \in Writers :
       /\ w1 # w2
       /\ fixId(uarg[w1].id) = fixId(uarg[w2].id)
       /\ uarg[w1].v # uarg[w2].v
       /\ findUnique(session, accountId, fixId(uarg[w1].id)) = {sessionRow(uarg[w1])}

\* A single-select list of at least one section, each of at least one row,
\* each row with title and id.
ListComplete(b) ==
  /\ b.sections.isArray
  /\ b.sections.items # <<>>
  /\ \A i \in DOMAIN b.sections.items :
       /\ b.sections.items[i].rows.isArray
       /\ b.sections.items[i].rows.items # <<>>
       /\ \A j \in DOMAIN b.sections.items[i].rows.items :
            /\ b.sections.items[i].rows.items[j].title
            /\ b.sections.items[i].rows.items[j].id

\* A button that lacks a field its type requires.
ButtonIncomplete(b) ==
  \/ b.type = "quick_reply" /\ ~b.id
  \/ b.type = "cta_url" /\ ~b.url
  \/ b.type = "cta_call" /\ ~b.id
  \/ b.type = "cta_copy" /\ (~b.id \/ ~b.copy_code)
  \/ b.type = "single_select" /\ ~ListComplete(b)

\* A body that is structurally invalid: unknown message type, no content, or
\* a button message with an incomplete button.
StructurallyInvalid(body) ==
  \/ body.message_type = "other"
  \/ ~body.message_content
  \/ /\ body.message_type = "button"
     /\ \E i \in DOMAIN body.buttons.items : ButtonIncomplete(body.buttons.items[i])

\* C28: a send request whose body is structurally invalid is answered with an
\* error and no job is queued for it.
C28_InvalidRejected ==
  (reqPc = "answered" /\ StructurallyInvalid(reqBody))
    => (reqStatus # 202 /\ ~reqQueued)

\* Worker w ends a retry attempt of its job in this step.
RetryAttemptEnds(w) ==
  /\ wpc[w] = "active"
  /\ wpc'[w] # "active"
  /\ attempts'[witem[w]] = attempts[witem[w]] + 1
  /\ messageLog[witem[w]].retryCount > 0

\* C29: a retry attempt of a job whose account is INACTIVE ends without a
\* transport send (the account has no socket to send on), with retryCount
\* incremented, and with the job waiting for its next retry or FAILED.
C29_InactiveFailsFast ==
  [][\A w \in Workers :
       (RetryAttemptEnds(w) /\ accounts[messageLog[witem[w]].accountId] = "INACTIVE")
         => /\ whatsappSockets[messageLog[witem[w]].accountId] = 0
            /\ messageLog'[witem[w]].retryCount = messageLog[witem[w]].retryCount + 1
            /\ \/ wpc'[w] = "retryWait"
               \/ messageLog'[witem[w]].status = "FAILED"]_vars

\* C30: once a cancel of a job has answered success the job is not sent (no
\* attempt of it calls the transport, it is not recorded delivered) and its
\* status is never SENT; and a cancel called when a worker had already claimed
\* the job does not answer success.
C30_CancelVersusWorker ==
  /\ [][\A j \in cancelled :
          /\ (attempts'[j] # attempts[j]
                => whatsappSockets[messageLog[j].accountId] = 0)
          /\ (j \in delivered' => j \in delivered)]_vars
  /\ [](\A j \in cancelled : messageLog[j].status # "SENT")
  /\ [][\A j \in JobIds :
          (j \in cancelled' /\ j \notin cancelled) => cancelAt[j] # "ACTIVE"]_vars

\* Handle h has just handled a "close" event, whatever its reason.
AnyClose(h) ==
  hstate[h] \in {"connecting", "open"} /\ hstate'[h] \in {"closed", "loggedOut"}

HoldersOf(p) ==
  {a \in Accounts : accounts[a] # "NONE" /\ a \notin deletedAt
                    /\ phone_number[a] = p}

RegistrationSteps(r) ==
  regPc[r] \in {"idle", "create"} /\ regPc'[r] # regPc[r]

C32_UniquePhoneNumber ==
  /\ [](\A p \in Phones : Cardinality(HoldersOf(p)) <= 1)
  /\ [][\A r \in Registrations :
          (RegistrationSteps(r) /\ HoldersOf(regPhone'[r]) # {})
            => /\ regPc'[r] = "done"
               /\ regStatus'[r] \in {400, 500}
               /\ UNCHANGED <<accounts, phone_number, initAccount,
                              whatsappSockets>>]_vars

\* ---------------------------------------------------------------------------
\* C33: the operations of the session store are idempotent. A call of
\* write(id, v) made when the record of id holds v already (the state write
\* leaves) changes nothing in the table, and a call of del(id) made when id
\* has no record returns and changes no record.
CallMade == Len(callLog') = Len(callLog) + 1

StoredAs(id, v) ==
  findUnique(session, accountId, fixId(id))
    = {sessionRow([a |-> accountId, id |-> id, v |-> v])}

C33_StoreIdempotent ==
  [][CallMade =>
       LET call == callLog'[Len(callLog')] IN
         /\ (call.op = "write" /\ StoredAs(call.id, call.v))
              => session' = session
         /\ (call.op = "del"
               /\ findUnique(session, accountId, fixId(call.id)) = {})
              => session' = session]_vars

\* C33 witness: del was called on a key that had no record while another key
\* had one, and write was called twice with the same arguments, the first
\* call having stored its value; the table holds what the first write left.
C33_Witness ==
  /\ Len(callLog) = 3
  /\ callLog[1].op = "write" /\ callLog[2] = callLog[1]
  /\ callLog[3].op = "del"
  /\ fixId(callLog[3].id) # fixId(callLog[1].id)
  /\ session = {sessionRow([a |-> accountId, id |-> callLog[1].id,
                            v |-> callLog[1].v])}

\* ---------------------------------------------------------------------------
\* C34: an event of a superseded handle of an account never removes or
\* replaces the account's current handle and never overwrites the status the
\* current handle has established: when the current handle has reported open
\* and the account is ACTIVE, a close event of an older handle of the account
\* leaves the account ACTIVE, the current handle registered and its reported
\* state in place.
Superseded(h) ==
  /\ hstate[h] \in {"connecting", "open"}
  /\ whatsappSockets[hacct[h]] \notin {0, h}

C34_LateCloseIgnored ==
  [][\A h \in Handles :
       (/\ Superseded(h)
        /\ AnyClose(h)
        /\ hstate[whatsappSockets[hacct[h]]] = "open"
        /\ accounts[hacct[h]] = "ACTIVE")
         => /\ accounts'[hacct[h]] = "ACTIVE"
            /\ whatsappSockets'[hacct[h]] = whatsappSockets[hacct[h]]
            /\ socketStatus'[hacct[h]] = socketStatus[hacct[h]]]_vars

\* ---------------------------------------------------------------------------
\* C35: the normalization of identifiers keeps distinct keys distinct: a call
\* of write or del under one identifier never changes what read returns for
\* a different identifier of the same account.
ReadOf(rows, id) == read(rows, accountId, id, FALSE)

C35_DistinctKeysDistinct ==
  [][CallMade =>
       LET call == callLog'[Len(callLog')] IN
         \A id \in Identifiers \ {call.id} :
           ReadOf(session', id) = ReadOf(session, id)]_vars

AcceptedRequestWrites ==
  /\ reqPc = "received"
  /\ sm.pc = "upsert"
  /\ sendMessageStatus(reqBody, TRUE) = 202

SuccessfulSendWrites ==
  \E w \in Workers :
    /\ wpc[w] = "active"
    /\ witem[w] \in delivered' \ delivered

C37_MappingOnlyOnSuccess ==
  [][recipientAccountMap' # recipientAccountMap
       => (AcceptedRequestWrites \/ SuccessfulSendWrites)]_vars

\* ---------------------------------------------------------------------------
\* C38: an account whose row has status ACTIVE has a handle registered in
\* whatsappSockets whose last reported connection state is open; and no
\* handle that has closed stays registered, usable by a send, while its
\* account is INACTIVE.
C38_ActiveHasOpenHandle ==
  \A a \in Accounts :
    /\ accounts[a] = "ACTIVE"
         => /\ whatsappSockets[a] # 0
            /\ hstate[whatsappSockets[a]] = "open"
    /\ (accounts[a] = "INACTIVE" /\ whatsappSockets[a] # 0)
         => hstate[whatsappSockets[a]] \notin {"closed", "loggedOut"}

====
